---- MODULE Spec2Model ----
(***************************************************************************)
(* Verification model of the Micro AI Code Reviewer: the heuristic quality *)
(* scorer and scanners (services/analysisService), the report formatter    *)
(* (utils/formatter), the feedback store (services/geminiService), the     *)
(* team-insight history (team collaboration service) and the review        *)
(* routes (routes/codeReview).                                             *)
(*                                                                         *)
(* A source text is a sequence of one-character strings.  A JavaScript     *)
(* object is a function whose domain is its set of own keys, so an absent  *)
(* property is a key outside the DOMAIN.  A call that may raise yields     *)
(* Ok(v) or Threw(msg).                                                    *)
(***************************************************************************)
EXTENDS Integers, Sequences, FiniteSets, TLC

VARIABLES
    code,        \* the text handed to the analysis service
    quality,     \* what getCodeQualityScore returned for it (Pending before)
    now,         \* the clock read by Date.now() and new Date()
    reviewData,  \* the analysis results handed to the formatter
    analysis,    \* what structureCodeReviewOutput made of them
    report,      \* what createStructuredOutput made of that
    userFeedbackStorage,  \* Map userId -> {feedback, preferences}
    feedbackLog, \* history: the feedback objects stored for each user, in order
    req,         \* the request the router handled last
    gemini,      \* what the AI collaborator did for that request
    res,         \* the response it sent
    called,      \* the analysis and AI functions that request invoked
    teamInsightsStorage,  \* Map teamId -> list of stored insights
    teamLog,     \* history: the insights computed for each team, in order
    teamBatch,   \* the prData of the last analyzeTeamCollaboration call
    teamResult,  \* what that call returned
    securityScan,  \* what getSecurityIssues returned for code (Pending before)
    optimizedCode,   \* the second text handed to estimatePerformanceImpact
    performance,     \* what estimatePerformanceImpact returned (Pending before)
    explanation,     \* what generatePerformanceExplanation made of it
    language,        \* the language the detector is asked about
    detections,      \* the analyzeLanguageSpecific calls made so far, in order
    lastIndex,       \* the lastIndex property of each catalog RegExp object
    requests,        \* the HTTP requests in flight and where each one stands
    webhook,         \* the webhook delivery being handled and its responses
    precommit,       \* the pre-commit run: staged files, tools, outcome
    styleCheck       \* the enforceCodeStyle call: tool outcomes and result

pureVars == <<code, quality, reviewData, analysis, report>>
storeVars == <<userFeedbackStorage, feedbackLog>>
teamVars == <<teamInsightsStorage, teamLog, teamBatch, teamResult>>
httpVars == <<req, gemini, res, called>>
scanVars == <<securityScan, optimizedCode, performance, explanation>>
detectVars == <<language, detections, lastIndex>>
taskVars == <<requests, webhook, precommit, styleCheck>>
serviceVars == <<scanVars, detectVars, taskVars>>
vars == <<code, quality, now, reviewData, analysis, report,
          userFeedbackStorage, feedbackLog, req, gemini, res, called,
          teamInsightsStorage, teamLog, teamBatch, teamResult,
          securityScan, optimizedCode, performance, explanation,
          language, detections, lastIndex,
          requests, webhook, precommit, styleCheck>>

-----------------------------------------------------------------------------
(* Bounds of the model                                                     *)

MaxLen == 4        \* longest text of the exhaustive family
MaxRepeat == 11    \* most repetitions of a unit in the repeated family
MaxIssues == 1     \* longest issue list the AI collaborator returns
MaxFeedback == 2   \* most feedback objects stored in one behaviour
MaxAnalyses == 11  \* most team analyses in one behaviour
MaxPieces == 4     \* most fragments joined into one scanned text
MaxFragments == 2  \* most fragments joined into one benchmarked text
MaxDevelopers == 4 \* most authors in a generated batch of pull requests
MaxCalls == 3      \* most calls of the pattern detector in one behaviour

-----------------------------------------------------------------------------
(* Generic helpers                                                         *)

Min(a, b) == IF a < b THEN a ELSE b
Max(a, b) == IF a > b THEN a ELSE b

\* Math.round(num / den) for den > 0: halves round towards +Infinity.
MathRound(num, den) == (2 * num + den) \div (2 * den)

Ok(v) == [threw |-> FALSE, value |-> v]
Threw(msg) == [threw |-> TRUE, error |-> msg]

Pending == [pending |-> TRUE]

RECURSIVE Repeat(_, _)
Repeat(unit, n) == IF n = 0 THEN <<>> ELSE unit \o Repeat(unit, n - 1)

\* The object spread {...a, ...b}: b's keys win.
Spread(a, b) ==
    [ k \in DOMAIN a \cup DOMAIN b |-> IF k \in DOMAIN b THEN b[k] ELSE a[k] ]

\* Reading a string property that may be absent
Undefined == "undefined"
Prop(obj, key) == IF key \in DOMAIN obj THEN obj[key] ELSE Undefined

-----------------------------------------------------------------------------
(* Texts                                                                   *)

\* The characters a JavaScript regular expression's \w (and so \b) treats as
\* word characters.
WordChars ==
    { "a", "b", "c", "d", "e", "f", "g", "h", "i", "j", "k", "l", "m",
      "n", "o", "p", "q", "r", "s", "t", "u", "v", "w", "x", "y", "z",
      "A", "B", "C", "D", "E", "F", "G", "H", "I", "J", "K", "L", "M",
      "N", "O", "P", "Q", "R", "S", "T", "U", "V", "W", "X", "Y", "Z",
      "0", "1", "2", "3", "4", "5", "6", "7", "8", "9", "_" }

\* String.prototype.split('\n'): the pieces between line feeds, in order; the
\* empty text splits into one empty line.
LineFeeds(text) == { p \in 1..Len(text) : text[p] = "\n" }

\* The position of the i-th line feed; 0 stands before the text and
\* Len(text) + 1 after it.
LineFeedAt(text, i) ==
    IF i = 0 THEN 0
    ELSE IF i > Cardinality(LineFeeds(text)) THEN Len(text) + 1
    ELSE CHOOSE p \in LineFeeds(text) :
             Cardinality({ q \in LineFeeds(text) : q <= p }) = i

SplitLines(text) ==
    [ i \in 1..(Cardinality(LineFeeds(text)) + 1) |->
        SubSeq(text, LineFeedAt(text, i - 1) + 1, LineFeedAt(text, i) - 1) ]

\* String.prototype.includes(sub)
Includes(text, sub) ==
    \E p \in 1..(Len(text) - Len(sub) + 1) :
        SubSeq(text, p, p + Len(sub) - 1) = sub

\* A matcher that forgets the word boundaries: the keyword anywhere.
WordMatchAt_NoBoundary(text, keyword, p) ==
    /\ p + Len(keyword) - 1 <= Len(text)
    /\ SubSeq(text, p, p + Len(keyword) - 1) = keyword

\* new RegExp('\\b' + keyword + '\\b') matching at position p: the keyword is
\* there and a word boundary stands before and after it.  Every keyword is
\* made of word characters, so the boundary is "no word character next to it".
WordMatchAt(text, keyword, p) ==
    /\ p + Len(keyword) - 1 <= Len(text)
    /\ SubSeq(text, p, p + Len(keyword) - 1) = keyword
    /\ (p = 1 \/ text[p - 1] \notin WordChars)
    /\ (p + Len(keyword) > Len(text) \/ text[p + Len(keyword)] \notin WordChars)

\* code.match(regex) with the g flag: find the leftmost match at or after p,
\* resume right after it; the number of matches found (0 when match()
\* returns null).
RECURSIVE MatchCountFrom(_, _, _)
MatchCountFrom(text, keyword, p) ==
    LET found == { q \in p..Len(text) : WordMatchAt(text, keyword, q) }
    IN  IF found = {} THEN 0
        ELSE LET q == CHOOSE q \in found : \A r \in found : q <= r
             IN  1 + MatchCountFrom(text, keyword, q + Len(keyword))

MatchCount(text, keyword) == MatchCountFrom(text, keyword, 1)

-----------------------------------------------------------------------------
(* services/analysisService: the quality scorer                            *)

controlFlowKeywords ==
    << <<"i", "f">>, <<"f", "o", "r">>, <<"w", "h", "i", "l", "e">>,
       <<"c", "a", "s", "e">>, <<"c", "a", "t", "c", "h">> >>

\* calculateComplexity: base 1, plus the matches of each keyword, times 10,
\* capped at 100.
RECURSIVE ComplexityFrom(_, _, _)
ComplexityFrom(text, i, complexity) ==
    IF i > Len(controlFlowKeywords) THEN complexity
    ELSE ComplexityFrom(text, i + 1,
                        complexity + MatchCount(text, controlFlowKeywords[i]))

\* A complexity that is not capped.
calculateComplexity_NoCap(text) == ComplexityFrom(text, 1, 1) * 10

calculateComplexity(text) == Min(ComplexityFrom(text, 1, 1) * 10, 100)

\* A duplication estimate that leaves blank lines out of the count.
calculateDuplication_SkipsBlank(text) ==
    LET NotBlank(line) == line # <<>>
        lines == SelectSeq(SplitLines(text), NotBlank)
        uniqueLines == { lines[i] : i \in 1..Len(lines) }
    IN  IF Len(lines) = 0 THEN 0
        ELSE MathRound((Len(lines) - Cardinality(uniqueLines)) * 100,
                       Len(lines))

\* calculateDuplication: the share of lines that repeat an earlier line.
calculateDuplication(text) ==
    LET lines == SplitLines(text)
        uniqueLines == { lines[i] : i \in 1..Len(lines) }
    IN  MathRound((Len(lines) - Cardinality(uniqueLines)) * 100, Len(lines))

\* calculateReadability: 100 - min(avgLineLength, 100), 20 less when the
\* average is under 10, rounded, never below 0.  avgLineLength is the
\* rational Len(text) / n, kept as a numerator over n.
calculateReadability(text) ==
    LET n == Len(SplitLines(text))
        base == 100 * n - Min(Len(text), 100 * n)
        readabilityScore == IF Len(text) < 10 * n THEN base - 20 * n ELSE base
    IN  Max(MathRound(readabilityScore, n), 0)

\* getCodeQualityScore: the weighted score and the four metrics.  The text
\* is a string, so nothing in the try block raises and the catch branch
\* ({score: 0, metrics: {}}) is not taken.
getCodeQualityScore(text) ==
    LET linesOfCode == Len(SplitLines(text))
        complexity == calculateComplexity(text)
        duplication == calculateDuplication(text)
        readability == calculateReadability(text)
        qualityScore == MathRound(4 * readability + 3 * complexity
                                  + 3 * (100 - duplication), 10)
    IN  [ score |-> qualityScore,
          metrics |-> [ linesOfCode |-> linesOfCode,
                        complexity |-> complexity,
                        duplication |-> duplication,
                        readability |-> readability ] ]

-----------------------------------------------------------------------------
(* services/analysisService: the security and dependency scanners          *)

S_innerHTML == <<".", "i", "n", "n", "e", "r", "H", "T", "M", "L">>
S_eval == <<"e", "v", "a", "l", "(">>
S_plus == <<"+">>
S_SELECT == <<"S", "E", "L", "E", "C", "T">>
S_INSERT == <<"I", "N", "S", "E", "R", "T">>
S_windowLocation ==
    <<"w", "i", "n", "d", "o", "w", ".", "l", "o", "c", "a", "t", "i", "o", "n">>
S_redirect == <<"r", "e", "d", "i", "r", "e", "c", "t", "(">>
S_newBuffer == <<"n", "e", "w", " ", "B", "u", "f", "f", "e", "r", "(">>

XssIssue ==
    [ type |-> "XSS Vulnerability",
      description |-> "Potential cross-site scripting vulnerability detected",
      severity |-> "High",
      suggestion |->
          "Use safer alternatives like textContent or sanitize user inputs" ]
SqlInjectionIssue ==
    [ type |-> "SQL Injection",
      description |-> "Potential SQL injection vulnerability detected",
      severity |-> "High",
      suggestion |-> "Use parameterized queries or ORM methods" ]
OpenRedirectIssue ==
    [ type |-> "Open Redirect",
      description |-> "Potential open redirect vulnerability detected",
      severity |-> "Medium",
      suggestion |-> "Validate redirect URLs against whitelist" ]
DeprecatedApiIssue ==
    [ type |-> "Deprecated API",
      description |-> "Buffer() constructor is deprecated and unsafe",
      severity |-> "High",
      suggestion |-> "Use Buffer.alloc() or Buffer.from() instead" ]

\* A scanner whose checks are chained with else: the first match wins.
getSecurityIssues_FirstMatchOnly(text) ==
    IF Includes(text, S_innerHTML) \/ Includes(text, S_eval)
    THEN << XssIssue >>
    ELSE IF Includes(text, S_plus)
            /\ (Includes(text, S_SELECT) \/ Includes(text, S_INSERT))
    THEN << SqlInjectionIssue >>
    ELSE IF Includes(text, S_windowLocation) \/ Includes(text, S_redirect)
    THEN << OpenRedirectIssue >>
    ELSE <<>>

\* getSecurityIssues: three checks in a fixed order, each pushing one issue.
getSecurityIssues(text) ==
    (IF Includes(text, S_innerHTML) \/ Includes(text, S_eval)
     THEN << XssIssue >> ELSE <<>>)
    \o (IF Includes(text, S_plus)
           /\ (Includes(text, S_SELECT) \/ Includes(text, S_INSERT))
        THEN << SqlInjectionIssue >> ELSE <<>>)
    \o (IF Includes(text, S_windowLocation) \/ Includes(text, S_redirect)
        THEN << OpenRedirectIssue >> ELSE <<>>)

\* checkDependencies: one check.
checkDependencies(text) ==
    IF Includes(text, S_newBuffer) THEN << DeprecatedApiIssue >> ELSE <<>>

-----------------------------------------------------------------------------
(* utils/formatter                                                         *)

\* formatIssuesWithSeverity: each issue plus severityTag `[${severity}]`.
formatIssuesWithSeverity(issues) ==
    LET tagged(issue) ==
            Spread(issue,
                   [ severityTag |-> <<"[", Prop(issue, "severity"), "]">> ])
    IN  [ k \in 1..Len(issues) |-> tagged((issues)[k]) ]

\* The length of an optional list of the AI review (0 when absent) and the
\* list formatted ([] when absent).
LengthOrZero(obj, key) == IF key \in DOMAIN obj THEN Len(obj[key]) ELSE 0
FormattedOrEmpty(obj, key) ==
    IF key \in DOMAIN obj THEN formatIssuesWithSeverity(obj[key]) ELSE <<>>

\* structureCodeReviewOutput: raises a TypeError when qualityScore,
\* securityIssues, dependencyIssues or aiReview is absent (a property of
\* undefined is read); totalIssues adds security, dependency and bug counts.
structureCodeReviewOutput(data) ==
    IF ~({"qualityScore", "securityIssues", "dependencyIssues", "aiReview"}
            \subseteq DOMAIN data)
    THEN Threw("TypeError")
    ELSE Ok([ summary |->
                  [ qualityScore |-> data.qualityScore.score,
                    totalIssues |->
                        Len(data.securityIssues) + Len(data.dependencyIssues)
                        + LengthOrZero(data.aiReview, "bugs") ],
              qualityMetrics |-> data.qualityScore.metrics,
              security |-> formatIssuesWithSeverity(data.securityIssues),
              dependencies |-> formatIssuesWithSeverity(data.dependencyIssues),
              aiAnalysis |->
                  [ bugs |-> FormattedOrEmpty(data.aiReview, "bugs"),
                    performance |->
                        FormattedOrEmpty(data.aiReview, "performance"),
                    refactor |-> FormattedOrEmpty(data.aiReview, "refactor") ] ])

\* countIssuesBySeverity: the issues of the five lists with that severity.
countIssuesBySeverity(a, severity) ==
    LET hit(issue) == Prop(issue, "severity") = severity
    IN  Cardinality({ k \in 1..Len(a.security) : hit((a.security)[k]) })
        + Cardinality({ k \in 1..Len(a.dependencies) : hit((a.dependencies)[k]) })
        + Cardinality({ k \in 1..Len(a.aiAnalysis.bugs) : hit((a.aiAnalysis.bugs)[k]) })
        + Cardinality({ k \in 1..Len(a.aiAnalysis.performance) : hit((a.aiAnalysis.performance)[k]) })
        + Cardinality({ k \in 1..Len(a.aiAnalysis.refactor) : hit((a.aiAnalysis.refactor)[k]) })

\* The label createStructuredOutput puts on each issue of a partition: the
\* spread of the issue, its severity again, and type set to the label.
Labelled(issues, label) ==
    LET relabel(issue) ==
            Spread(issue, [ severity |-> Prop(issue, "severity"),
                            type |-> label ])
    IN  [ k \in 1..Len(issues) |-> relabel((issues)[k]) ]

\* createStructuredOutput: raises a TypeError when the argument has no
\* summary, security, dependencies or aiAnalysis (it reads
\* analysis.summary.totalIssues, analysis.security.filter, ...).
createStructuredOutput(a, time) ==
    IF \/ ~({"summary", "security", "dependencies", "aiAnalysis"}
              \subseteq DOMAIN a)
       \/ ~({"bugs", "performance", "refactor"} \subseteq DOMAIN a.aiAnalysis)
    THEN Threw("TypeError")
    ELSE Ok([ id |-> <<"review_", time>>,
              timestamp |-> time,
              summary |->
                  [ totalIssues |-> a.summary.totalIssues,
                    qualityScore |-> a.summary.qualityScore,
                    severityBreakdown |->
                        [ high |-> countIssuesBySeverity(a, "High"),
                          medium |-> countIssuesBySeverity(a, "Medium"),
                          low |-> countIssuesBySeverity(a, "Low") ] ],
              details |->
                  [ quality |-> Prop(a, "qualityMetrics"),
                    security |-> Labelled(a.security, "Security"),
                    dependencies |-> Labelled(a.dependencies, "Dependency"),
                    ai |-> [ bugs |-> Labelled(a.aiAnalysis.bugs, "Bug"),
                             performance |->
                                 Labelled(a.aiAnalysis.performance,
                                          "Performance"),
                             refactor |->
                                 Labelled(a.aiAnalysis.refactor,
                                          "Refactor") ] ] ])

-----------------------------------------------------------------------------
(* The team collaboration insights service                                 *)

HistoryLimit == 10

TeamIds == { "default", "alpha" }

\* The k-th smallest member of a finite set of numbers.
KthOf(S, k) == CHOOSE x \in S : Cardinality({ y \in S : y <= x }) = k

\* The members of a sequence at the positions of S, in order.
SelectAt(s, S) == [ k \in 1..Cardinality(S) |-> s[KthOf(S, k)] ]

\* The first occurrences of a sequence's members, in order (the insertion
\* order of a Map's keys or a Set's members).
FirstSeen(s) ==
    SelectAt(s, { i \in 1..Len(s) : \A j \in 1..(i - 1) : s[j] # s[i] })

RECURSIVE Flatten(_)
Flatten(ss) == IF ss = <<>> THEN <<>> ELSE Head(ss) \o Flatten(Tail(ss))

\* The issues a pull request carries: pr.analysis.issues, or none.
IssuesOf(pr) ==
    IF "analysis" \in DOMAIN pr /\ "issues" \in DOMAIN pr.analysis
    THEN pr.analysis.issues ELSE <<>>

\* Stable insertion of x into a sequence kept in non-increasing key order.
RECURSIVE InsertByKey(_, _, _)
InsertByKey(sorted, x, key) ==
    IF sorted = <<>> THEN << x >>
    ELSE IF Head(sorted)[key] >= x[key]
         THEN << Head(sorted) >> \o InsertByKey(Tail(sorted), x, key)
         ELSE << x >> \o sorted

\* Array.prototype.sort((a, b) => b[key] - a[key]): stable, descending.
RECURSIVE SortDescending(_, _)
SortDescending(s, key) ==
    IF s = <<>> THEN <<>>
    ELSE InsertByKey(SortDescending(SubSeq(s, 1, Len(s) - 1), key),
                     s[Len(s)], key)

\* extractDevelopers: one record per author in first-seen order, with the
\* number of pull requests, all their issues in order, and the distinct
\* issue types in first-seen order.
extractDevelopers(prData) ==
    LET prs == prData.pullRequests
        authors == FirstSeen([ i \in 1..Len(prs) |-> prs[i].author ])
        developer(author) ==
            LET mine == { i \in 1..Len(prs) : prs[i].author = author }
                issues == Flatten([ k \in 1..Cardinality(mine) |->
                                      IssuesOf(prs[KthOf(mine, k)]) ])
                typed == { i \in 1..Len(issues) : "type" \in DOMAIN issues[i] }
            IN  [ name |-> author,
                  prCount |-> Cardinality(mine),
                  issues |-> issues,
                  patterns |->
                      FirstSeen([ k \in 1..Cardinality(typed) |->
                                    issues[KthOf(typed, k)].type ]) ]
    IN  [ k \in 1..Len(authors) |-> developer((authors)[k]) ]

\* findCommonIssues: issueFrequency adds one for every issue of every
\* developer under its type ('unknown' when it has none); the types counted
\* at least ceil(developers * 0.3) times, most frequent first.
findCommonIssues(developers) ==
    LET all == Flatten([ d \in 1..Len(developers) |-> developers[d].issues ])
        keys == [ i \in 1..Len(all) |->
                    IF "type" \in DOMAIN all[i] THEN all[i].type ELSE "unknown" ]
        types == FirstSeen(keys)
        count(type) == Cardinality({ i \in 1..Len(keys) : keys[i] = type })
        threshold == (3 * Len(developers) + 9) \div 10
        common == { k \in 1..Len(types) : count(types[k]) >= threshold }
        entry(type) ==
            [ type |-> type,
              frequency |-> count(type),
              percentage |-> MathRound(count(type) * 100, Len(developers)) ]
    IN  SortDescending([ k \in 1..Len(SelectAt(types, common)) |-> entry((SelectAt(types, common))[k]) ], "frequency")

antiPatterns ==
    { "varUsage", "consoleLog", "anyType", "tsIgnore",
      "globalUsage", "execUsage", "evalUsage", "systemOut" }

\* A violation count that adds one for every occurrence of an anti-pattern
\* in a developer's issues instead of one per developer.
findBestPracticeViolations_CountsOccurrences(developers) ==
    LET all == Flatten([ d \in 1..Len(developers) |-> developers[d].issues ])
        typed == SelectAt(all, { i \in 1..Len(all) : "type" \in DOMAIN all[i] })
        seen == [ i \in 1..Len(typed) |-> typed[i].type ]
        hits == SelectAt(seen, { i \in 1..Len(seen) : seen[i] \in antiPatterns })
        types == FirstSeen(hits)
        count(type) == Cardinality({ i \in 1..Len(hits) : hits[i] = type })
        entry(type) ==
            [ type |-> type,
              count |-> count(type),
              percentage |-> MathRound(count(type) * 100, Len(developers)) ]
    IN  SortDescending([ k \in 1..Len(types) |-> entry(types[k]) ], "count")

\* findBestPracticeViolations: for each anti-pattern the number of
\* developers whose patterns hold it, largest count first.
findBestPracticeViolations(developers) ==
    LET seen == Flatten([ d \in 1..Len(developers) |-> developers[d].patterns ])
        hits == SelectAt(seen, { i \in 1..Len(seen) : seen[i] \in antiPatterns })
        types == FirstSeen(hits)
        count(type) == Cardinality({ i \in 1..Len(hits) : hits[i] = type })
        entry(type) ==
            [ type |-> type,
              count |-> count(type),
              percentage |-> MathRound(count(type) * 100, Len(developers)) ]
    IN  SortDescending([ k \in 1..Len(types) |-> entry((types)[k]) ], "count")

\* Recommendations whose thresholds are inclusive (>= 50, >= 40)
generateTeamRecommendations_Inclusive(commonIssues, bestPracticeViolations) ==
    LET forIssue(issue) ==
            [ type |-> "common_issue",
              priority |-> IF issue.percentage >= 50 THEN "high" ELSE "medium",
              description |-> <<"Team-wide issue", issue.type, issue.percentage>>,
              suggestion |-> <<"Conduct a team training session", issue.type>> ]
        forViolation(violation) ==
            [ type |-> "best_practice",
              priority |->
                  IF violation.percentage >= 40 THEN "high" ELSE "medium",
              description |-> <<"Best practice violation", violation.type,
                                violation.percentage>>,
              suggestion |-> <<"Update team coding standards",
                               violation.type>> ]
    IN  [ k \in 1..Len(commonIssues) |-> forIssue(commonIssues[k]) ]
        \o [ k \in 1..Len(bestPracticeViolations) |->
                forViolation(bestPracticeViolations[k]) ]

\* generateTeamRecommendations: one entry per common issue, then one per
\* violation.
generateTeamRecommendations(commonIssues, bestPracticeViolations) ==
    LET forIssue(issue) ==
            [ type |-> "common_issue",
              priority |-> IF issue.percentage > 50 THEN "high" ELSE "medium",
              description |-> <<"Team-wide issue", issue.type, issue.percentage>>,
              suggestion |-> <<"Conduct a team training session", issue.type>> ]
        forViolation(violation) ==
            [ type |-> "best_practice",
              priority |->
                  IF violation.percentage > 40 THEN "high" ELSE "medium",
              description |-> <<"Best practice violation", violation.type,
                                violation.percentage>>,
              suggestion |-> <<"Update team coding standards",
                               violation.type>> ]
    IN  [ k \in 1..Len(commonIssues) |-> forIssue((commonIssues)[k]) ]
        \o [ k \in 1..Len(bestPracticeViolations) |-> forViolation((bestPracticeViolations)[k]) ]

\* getTeamInsightsHistory: teamInsightsStorage.get(teamId) || []
getTeamInsightsHistory(storage, teamId) ==
    IF teamId \in DOMAIN storage THEN storage[teamId] ELSE <<>>

\* An eviction that keeps the oldest ten: teamHistory.slice(0, 10)
LastTen_KeepsOldest(history) == SubSeq(history, 1, HistoryLimit)

\* teamHistory.slice(-10)
LastTen(history) ==
    SubSeq(history, Len(history) - HistoryLimit + 1, Len(history))

\* A store that pushes the entry on the list of every team it knows
storeTeamInsights_EveryTeam(storage, insights, time) ==
    LET entry == Spread([ timestamp |-> time ], insights)
    IN  [ t \in DOMAIN storage \cup {insights.teamId} |->
            LET teamHistory == Append(getTeamInsightsHistory(storage, t), entry)
            IN  IF Len(teamHistory) > HistoryLimit THEN LastTen(teamHistory)
                ELSE teamHistory ]

\* storeTeamInsights: push {timestamp, ...insights} on the team's list and
\* keep the last 10 when the list grows past 10.
storeTeamInsights(storage, insights, time) ==
    LET teamId == insights.teamId
        teamHistory ==
            Append(getTeamInsightsHistory(storage, teamId),
                   Spread([ timestamp |-> time ], insights))
    IN  [ t \in DOMAIN storage \cup {teamId} |->
            IF t # teamId THEN storage[t]
            ELSE IF Len(teamHistory) > HistoryLimit THEN LastTen(teamHistory)
            ELSE teamHistory ]

\* The insights analyzeTeamCollaboration computes from a batch.
TeamInsights(prData, time) ==
    LET developers == extractDevelopers(prData)
        commonIssues == findCommonIssues(developers)
        bestPracticeViolations == findBestPracticeViolations(developers)
    IN  [ teamId |-> IF "teamId" \in DOMAIN prData THEN prData.teamId
                     ELSE "default",
          analysisPeriod |-> [ start |-> <<"30 days before", time>>,
                               end |-> time ],
          developerCount |-> Len(developers),
          commonIssues |-> commonIssues,
          bestPracticeViolations |-> bestPracticeViolations,
          recommendations |->
              generateTeamRecommendations(commonIssues,
                                          bestPracticeViolations) ]

\* An analysis that refuses a batch without pull requests
analyzeTeamCollaboration_RejectsEmpty(storage, prData, time) ==
    IF "pullRequests" \notin DOMAIN prData \/ prData.pullRequests = <<>>
    THEN [ returned |-> Threw("Failed to analyze team collaboration patterns"),
           storage |-> storage ]
    ELSE LET insights == TeamInsights(prData, time)
         IN  [ returned |-> Ok(insights),
               storage |-> storeTeamInsights(storage, insights, time) ]

\* analyzeTeamCollaboration: compute the insights, store them, return them;
\* a batch without pullRequests raises inside extractDevelopers and the
\* catch block raises the fixed error before anything is stored.
analyzeTeamCollaboration(storage, prData, time) ==
    IF "pullRequests" \notin DOMAIN prData
    THEN [ returned |-> Threw("Failed to analyze team collaboration patterns"),
           storage |-> storage ]
    ELSE LET insights == TeamInsights(prData, time)
         IN  [ returned |-> Ok(insights),
               storage |-> storeTeamInsights(storage, insights, time) ]

-----------------------------------------------------------------------------
(* services/geminiService: the AI collaborator and the feedback store      *)

\* What model.generateContent can do: fail, or answer with a text that is
\* JSON for some value or is not JSON.
GeminiError == [ kind |-> "error" ]
GeminiJson(v) == [ kind |-> "json", value |-> v ]
GeminiText == [ kind |-> "text", text |-> "not json" ]

\* An analyzeCode without the inner try: a text that is not JSON is a
\* failure like any other.
analyzeCode_RaisesOnParseFault(response) ==
    IF response.kind # "json"
    THEN Threw("Failed to analyze code with AI")
    ELSE Ok(response.value)

\* analyzeCode, analyzeCodeWithContext and analyzeCodeWithLearning share
\* their ending: the parsed value, or {rawResponse: text} when JSON.parse
\* raises, or the fixed error when anything in the outer try raises.
analyzeCode(response) ==
    IF response.kind \notin {"json", "text"}
    THEN Threw("Failed to analyze code with AI")
    ELSE IF response.kind = "json" THEN Ok(response.value)
    ELSE Ok([ rawResponse |-> response.text ])

EmptyObject == <<>>

Users == { "u1", "u2" }

\* getUserFeedbackHistory: userFeedbackStorage.get(userId) || {}
getUserFeedbackHistory(storage, userId) ==
    IF userId \in DOMAIN storage THEN storage[userId] ELSE EmptyObject

\* An entry whose timestamp is written after the spread and so wins.
FeedbackEntry_StampLast(feedback, time) ==
    Spread(feedback, [ timestamp |-> time ])

\* The entry storeUserFeedback pushes: {timestamp: ..., ...feedback}
FeedbackEntry(feedback, time) == Spread([ timestamp |-> time ], feedback)

\* A store that replaces the user's list instead of pushing on it.
storeUserFeedback_Overwrites(storage, userId, feedback, time) ==
    [ u \in DOMAIN storage \cup {userId} |->
        IF u = userId THEN [ feedback |-> << FeedbackEntry(feedback, time) >> ]
        ELSE storage[u] ]

\* storeUserFeedback: push {timestamp, ...feedback} on the user's list and
\* merge feedback.preferences into the user's preferences.
storeUserFeedback(storage, userId, feedback, time) ==
    LET userData == getUserFeedbackHistory(storage, userId)
        list == IF "feedback" \in DOMAIN userData
                THEN userData.feedback ELSE <<>>
        entry == FeedbackEntry(feedback, time)
        withList == Spread(userData, [ feedback |-> Append(list, entry) ])
        oldPreferences == IF "preferences" \in DOMAIN userData
                          THEN userData.preferences ELSE EmptyObject
        newData ==
            IF "preferences" \in DOMAIN feedback
            THEN Spread(withList,
                        [ preferences |->
                              Spread(oldPreferences, feedback.preferences) ])
            ELSE withList
    IN  [ u \in DOMAIN storage \cup {userId} |->
            IF u = userId THEN newData ELSE storage[u] ]

InitStores ==
    /\ userFeedbackStorage = EmptyObject
    /\ feedbackLog = [ u \in Users |-> <<>> ]
    /\ teamInsightsStorage = EmptyObject
    /\ teamLog = [ t \in TeamIds |-> <<>> ]
    /\ teamBatch = Pending
    /\ teamResult = Pending

-----------------------------------------------------------------------------
(* routes/codeReview                                                       *)

Response(status, body) == [ status |-> status, body |-> body ]

\* res.json(body) without res.status(): status 200.
Json(body) == Response(200, body)

\* A check that lets the empty string through: code === undefined
CodeMissing_OnlyAbsent(body) == "code" \notin DOMAIN body

\* !code: the property is absent or the empty string.
CodeMissing(body) == "code" \notin DOMAIN body \/ body.code = <<>>

\* contextFiles && contextFiles.length > 0
HasContext(body) ==
    "contextFiles" \in DOMAIN body /\ Len(body.contextFiles) > 0

InitHttp ==
    /\ req = [ route |-> "none" ]
    /\ gemini = [ kind |-> "unused" ]
    /\ res = Pending
    /\ called = {}

\* POST /: reject a missing code; else run the three scanners and the AI
\* review, hand the four results to createStructuredOutput and send what it
\* returns; anything raised on the way is answered with 500.
ReviewHandler(body, response, time) ==
    IF CodeMissing(body)
    THEN [ res |-> Response(400, [ error |-> "Code is required" ]),
           called |-> {} ]
    ELSE LET qualityScore == getCodeQualityScore(body.code)
             securityIssues == getSecurityIssues(body.code)
             dependencyIssues == checkDependencies(body.code)
             aiReview == analyzeCode(response)
             scanners == { "getCodeQualityScore", "getSecurityIssues",
                           "checkDependencies" }
             ai == IF HasContext(body) THEN "analyzeCodeWithContext"
                   ELSE "analyzeCode"
             result == [ qualityScore |-> qualityScore,
                         securityIssues |-> securityIssues,
                         dependencyIssues |-> dependencyIssues,
                         aiReview |-> aiReview.value ]
             failure == Response(500, [ error |-> "Failed to analyze code" ])
         IN  IF aiReview.threw
             THEN [ res |-> failure, called |-> scanners \cup {ai} ]
             ELSE LET structuredOutput == createStructuredOutput(result, time)
                  IN  [ res |-> IF structuredOutput.threw THEN failure
                                ELSE Json(structuredOutput.value),
                        called |-> scanners \cup {ai, "createStructuredOutput"} ]

\* POST /interactive: reject a missing code; else send the AI review.
InteractiveHandler(body, response) ==
    IF CodeMissing(body)
    THEN [ res |-> Response(400, [ error |-> "Code is required" ]),
           called |-> {} ]
    ELSE LET aiReview == analyzeCode(response)
             ai == IF HasContext(body) THEN "analyzeCodeWithContext"
                   ELSE "analyzeCode"
         IN  [ res |-> IF aiReview.threw
                       THEN Response(500, [ error |-> "Failed to analyze code" ])
                       ELSE Json(aiReview.value),
               called |-> {ai} ]

\* POST /learn: reject a missing code; else send the learning-mode review.
LearnHandler(body, response) ==
    IF CodeMissing(body)
    THEN [ res |-> Response(400, [ error |-> "Code is required" ]),
           called |-> {} ]
    ELSE LET aiReview == analyzeCode(response)
         IN  [ res |-> IF aiReview.threw
                       THEN Response(500, [ error |-> "Failed to analyze code" ])
                       ELSE Json(aiReview.value),
               called |-> { "analyzeCodeWithLearning" } ]

\* !userId || !feedback
FeedbackMissing(body) ==
    \/ "userId" \notin DOMAIN body
    \/ body.userId = ""
    \/ "feedback" \notin DOMAIN body

-----------------------------------------------------------------------------
(* services/performanceBenchmark: estimatePerformanceImpact and            *)
(* generatePerformanceExplanation                                          *)

\* The characters \s matches
WhiteSpace == { " ", "\n", "\t", "\r" }

Least(S) == CHOOSE x \in S : \A y \in S : x <= y

\* The last position of the longest run of characters of S that starts at
\* p (p - 1 when the run is empty): what a greedy S* consumes.
RunEnd(text, p, S) ==
    LET stop == { q \in p..Len(text) : text[q] \notin S }
    IN  IF stop = {} THEN Len(text) ELSE Least(stop) - 1

\* /\w+\s*\(/ tried at p: the position of the closing "(" of the match, or
\* 0 when there is none.  Neither \w+ nor \s* can give a character back to
\* what follows it, so the greedy runs decide the match.
CallMatchEnd(text, p) ==
    LET w == RunEnd(text, p, WordChars)
        s == RunEnd(text, w + 1, WhiteSpace)
    IN  IF w >= p /\ s + 1 <= Len(text) /\ text[s + 1] = "(" THEN s + 1 ELSE 0

\* /\b(for|while)\s*\(/ tried at p
LoopMatchEnd(text, p) ==
    LET boundary == p = 1 \/ text[p - 1] \notin WordChars
        KeywordEnd(keyword) ==
            IF /\ p + Len(keyword) - 1 <= Len(text)
               /\ SubSeq(text, p, p + Len(keyword) - 1) = keyword
            THEN p + Len(keyword) - 1 ELSE 0
        After(k) ==
            LET s == RunEnd(text, k + 1, WhiteSpace)
            IN  IF k > 0 /\ s + 1 <= Len(text) /\ text[s + 1] = "("
                THEN s + 1 ELSE 0
        for == After(KeywordEnd(<<"f", "o", "r">>))
        while == After(KeywordEnd(<<"w", "h", "i", "l", "e">>))
    IN  IF ~boundary THEN 0 ELSE IF for > 0 THEN for ELSE while

\* /\[[^\]]*\]/ and /\{[^\}]*\}/ tried at p: from the opening bracket to
\* the first closing one after it.
BracketMatchEnd(text, p, open, close) ==
    LET closing == { q \in (p + 1)..Len(text) : text[q] = close }
    IN  IF text[p] = open /\ closing # {} THEN Least(closing) ELSE 0

\* String.prototype.match with the g flag: the matches from left to right,
\* each search resuming after the previous match; the count is the length
\* of the array (0 for null).
RECURSIVE CallCountFrom(_, _)
CallCountFrom(text, p) ==
    LET starts == { q \in p..Len(text) : CallMatchEnd(text, q) > 0 }
    IN  IF starts = {} THEN 0
        ELSE 1 + CallCountFrom(text, CallMatchEnd(text, Least(starts)) + 1)

RECURSIVE LoopCountFrom(_, _)
LoopCountFrom(text, p) ==
    LET starts == { q \in p..Len(text) : LoopMatchEnd(text, q) > 0 }
    IN  IF starts = {} THEN 0
        ELSE 1 + LoopCountFrom(text, LoopMatchEnd(text, Least(starts)) + 1)

RECURSIVE BracketCountFrom(_, _, _, _)
BracketCountFrom(text, p, open, close) ==
    LET starts == { q \in p..Len(text) :
                      BracketMatchEnd(text, q, open, close) > 0 }
    IN  IF starts = {} THEN 0
        ELSE 1 + BracketCountFrom(text,
                     BracketMatchEnd(text, Least(starts), open, close) + 1,
                     open, close)

\* estimateNestedDepth: the loop over the characters, from index i on
RECURSIVE NestedDepthFrom(_, _, _, _)
NestedDepthFrom(text, i, currentDepth, maxDepth) ==
    IF i > Len(text) THEN maxDepth
    ELSE IF text[i] = "{"
    THEN NestedDepthFrom(text, i + 1, currentDepth + 1,
                         Max(maxDepth, currentDepth + 1))
    ELSE IF text[i] = "}"
    THEN NestedDepthFrom(text, i + 1, Max(0, currentDepth - 1), maxDepth)
    ELSE NestedDepthFrom(text, i + 1, currentDepth, maxDepth)

estimateNestedDepth(text) == NestedDepthFrom(text, 1, 0, 0)

estimateMemoryUsage(text) ==
    LET arrayCount == BracketCountFrom(text, 1, "[", "]")
        objectCount == BracketCountFrom(text, 1, "{", "}")
    IN  (arrayCount * 10) + (objectCount * 15)

\* calculateComplexityScore: memoryUsage * 0.5 can end in a half, so the
\* model holds complexityScore in halves (twice the JavaScript number).
calculateComplexityScore(metrics) ==
    2 * ((metrics.loopComplexity * 10) + (metrics.functionCalls * 2)
         + (metrics.nestedDepth * 15))
    + metrics.memoryUsage

analyzeCodeForPerformance(text) ==
    LET counted == [ loopComplexity |-> LoopCountFrom(text, 1),
                     functionCalls |-> CallCountFrom(text, 1),
                     nestedDepth |-> estimateNestedDepth(text),
                     memoryUsage |-> estimateMemoryUsage(text) ]
    IN  [ loopComplexity |-> counted.loopComplexity,
          functionCalls |-> counted.functionCalls,
          nestedDepth |-> counted.nestedDepth,
          memoryUsage |-> counted.memoryUsage,
          complexityScore |-> calculateComplexityScore(counted) ]

calculateImprovements(original, optimized) ==
    [ loopReduction |-> original.loopComplexity - optimized.loopComplexity,
      callReduction |-> original.functionCalls - optimized.functionCalls,
      depthReduction |-> original.nestedDepth - optimized.nestedDepth,
      memoryReduction |-> original.memoryUsage - optimized.memoryUsage ]

\* A gain that is not cut off at 0
calculatePerformanceGain_Signed(original, optimized) ==
    IF original.complexityScore = 0 THEN 0
    ELSE MathRound((original.complexityScore
                    - optimized.complexityScore) * 10000,
                   original.complexityScore)

\* calculatePerformanceGain: Math.max(0, Math.round(gain * 100) / 100).  A
\* number with two decimals is held in hundredths, so 12.5 is 1250; the
\* ratio of the two scores is the ratio of their halves.
calculatePerformanceGain(original, optimized) ==
    IF original.complexityScore = 0 THEN 0
    ELSE Max(0, MathRound((original.complexityScore
                           - optimized.complexityScore) * 10000,
                          original.complexityScore))

\* estimatePerformanceImpact: both arguments are strings, so nothing in the
\* try block raises.
estimatePerformanceImpact(originalCode, optimizedText) ==
    LET originalMetrics == analyzeCodeForPerformance(originalCode)
        optimizedMetrics == analyzeCodeForPerformance(optimizedText)
    IN  [ before |-> originalMetrics,
          after |-> optimizedMetrics,
          improvements |->
              calculateImprovements(originalMetrics, optimizedMetrics),
          estimatedPerformanceGain |->
              calculatePerformanceGain(originalMetrics, optimizedMetrics) ]

\* Array.prototype.join(' ') of a list of strings
RECURSIVE JoinWithSpace(_)
JoinWithSpace(strings) ==
    IF strings = <<>> THEN ""
    ELSE IF Len(strings) = 1 THEN strings[1]
    ELSE strings[1] \o " " \o JoinWithSpace(Tail(strings))

LoopSentence(n) ==
    "Reduced loop complexity by " \o ToString(n)
    \o " loops, which can significantly improve execution time."
CallSentence(n) ==
    "Reduced function calls by " \o ToString(n)
    \o ", decreasing overhead and improving performance."
DepthSentence(n) ==
    "Reduced nesting depth by " \o ToString(n)
    \o " levels, making the code more efficient and easier to optimize."
MemorySentence(n) ==
    "Reduced estimated memory usage by " \o ToString(n)
    \o " units, leading to better memory management."

\* An explanation that also reports the metrics that did not change
generatePerformanceExplanation_NotWorse(a) ==
    JoinWithSpace(
        (IF a.improvements.loopReduction >= 0
         THEN << LoopSentence(a.improvements.loopReduction) >> ELSE <<>>)
        \o (IF a.improvements.callReduction >= 0
            THEN << CallSentence(a.improvements.callReduction) >> ELSE <<>>)
        \o (IF a.improvements.depthReduction >= 0
            THEN << DepthSentence(a.improvements.depthReduction) >> ELSE <<>>)
        \o (IF a.improvements.memoryReduction >= 0
            THEN << MemorySentence(a.improvements.memoryReduction) >>
            ELSE <<>>))

\* generatePerformanceExplanation: four separate if statements, each
\* pushing one sentence, then join(' ').
generatePerformanceExplanation(a) ==
    JoinWithSpace(
        (IF a.improvements.loopReduction > 0
         THEN << LoopSentence(a.improvements.loopReduction) >> ELSE <<>>)
        \o (IF a.improvements.callReduction > 0
            THEN << CallSentence(a.improvements.callReduction) >> ELSE <<>>)
        \o (IF a.improvements.depthReduction > 0
            THEN << DepthSentence(a.improvements.depthReduction) >> ELSE <<>>)
        \o (IF a.improvements.memoryReduction > 0
            THEN << MemorySentence(a.improvements.memoryReduction) >>
            ELSE <<>>))

-----------------------------------------------------------------------------
(* The language-specific pattern detector (multiLanguageAnalyzer.js)       *)

\* The regular expressions of the catalog are sequences of alternatives, and
\* an alternative is a sequence of items: a literal string, a word boundary
\* \b, or a greedy run c* / c+ of the characters in (or, negated, outside) a
\* class.  "." is every character but a line terminator.
Str(s) == [ k |-> "str", s |-> s ]
WordBoundary == [ k |-> "b" ]
Run(of, negated, min) == [ k |-> "run", of |-> of, negated |-> negated, min |-> min ]
LineTerminators == { "\n", "\r" }

\* const languageRules: the catalogs in declaration order, each rule with its
\* name and its pattern.
languageRules ==
    [ javascript |->
        << [ name |-> "asyncAwait", pattern |->
               << << WordBoundary, Str(<<"a", "s", "y", "n", "c">>), Run(WhiteSpace, FALSE, 1),
                     Str(<<"f", "u", "n", "c", "t", "i", "o", "n">>), WordBoundary >>,
                  << WordBoundary, Str(<<"a", "s", "y", "n", "c">>), Run(WhiteSpace, FALSE, 1),
                     Str(<<"(">>), Run({ ")" }, TRUE, 0), Str(<<")">>),
                     Run(WhiteSpace, FALSE, 0), Str(<<"=", ">">>) >> >> ],
           [ name |-> "promiseChaining", pattern |->
               << << Str(<<".", "t", "h", "e", "n", "(">>) >>, << Str(<<".", "c", "a", "t", "c", "h", "(">>) >> >> ],
           [ name |-> "varUsage", pattern |->
               << << WordBoundary, Str(<<"v", "a", "r">>), WordBoundary >> >> ],
           [ name |-> "consoleLog", pattern |->
               << << WordBoundary, Str(<<"c", "o", "n", "s", "o", "l", "e", ".", "l", "o", "g">>), WordBoundary >> >> ] >>,
      typescript |->
        << [ name |-> "anyType", pattern |->
               << << Str(<<":">>), Run(WhiteSpace, FALSE, 0), Str(<<"a", "n", "y">>),
                     WordBoundary >> >> ],
           [ name |-> "explicitAny", pattern |-> << << Str(<<"<", "a", "n", "y", ">">>) >> >> ],
           [ name |-> "nonNullAssertion", pattern |-> << << Str(<<"!", ".">>) >> >> ],
           [ name |-> "tsIgnore", pattern |-> << << Str(<<"@", "t", "s", "-", "i", "g", "n", "o", "r", "e">>) >> >> ] >>,
      python |->
        << [ name |-> "globalUsage", pattern |->
               << << WordBoundary, Str(<<"g", "l", "o", "b", "a", "l">>), WordBoundary >> >> ],
           [ name |-> "execUsage", pattern |->
               << << WordBoundary, Str(<<"e", "x", "e", "c">>), WordBoundary >> >> ],
           [ name |-> "evalUsage", pattern |->
               << << WordBoundary, Str(<<"e", "v", "a", "l">>), WordBoundary >> >> ],
           [ name |-> "mutableDefault", pattern |->
               << << Str(<<"d", "e", "f">>), Run(WhiteSpace, FALSE, 1),
                     Run(WordChars, FALSE, 1), Str(<<"(">>),
                     Run({ ")" }, TRUE, 0), Str(<<"=">>),
                     Run(WhiteSpace, FALSE, 0), Str(<<"[">>),
                     Run(LineTerminators, TRUE, 0), Str(<<"]">>),
                     Run(LineTerminators, TRUE, 0), Str(<<")">>) >> >> ] >>,
      java |->
        << [ name |-> "systemOut", pattern |->
               << << Str(<<"S", "y", "s", "t", "e", "m", ".", "o", "u", "t", ".", "p", "r", "i", "n", "t">>) >> >> ],
           [ name |-> "rawTypes", pattern |->
               << << Str(<<"L", "i", "s", "t", "<">>), Run(WordChars, FALSE, 1), Str(<<">">>) >> >> ],
           [ name |-> "stringConcat", pattern |->
               << << Str(<<"+">>), Run(WhiteSpace, FALSE, 0), Str(<<"\"">>) >> >> ],
           [ name |-> "nullCheck", pattern |->
               << << Str(<<"=", "=">>), Run(WhiteSpace, FALSE, 0), Str(<<"n", "u", "l", "l">>) >> >> ] >> ]

\* The names of all rules: each catalog RegExp object has a lastIndex.
PatternNames ==
    UNION { { languageRules[l][i].name : i \in DOMAIN languageRules[l] } :
            l \in DOMAIN languageRules }

\* languageRules[language] is also defined, with no patterns, for a name
\* that every object inherits from Object.prototype.
ObjectPrototypeKeys == { "constructor", "toString", "valueOf" }

\* The items from the i-th on matched at position p of the text, the way a
\* backtracking matcher does it (a greedy run gives characters back one at a
\* time): the position after the match, or 0 when there is none.
RECURSIVE MatchFrom(_, _, _, _)
MatchFrom(items, i, text, p) ==
    IF i > Len(items) THEN p
    ELSE
        LET item == items[i] IN
        CASE item.k = "str" ->
                 IF /\ p + Len(item.s) - 1 <= Len(text)
                    /\ SubSeq(text, p, p + Len(item.s) - 1) = item.s
                 THEN MatchFrom(items, i + 1, text, p + Len(item.s))
                 ELSE 0
          [] item.k = "b" ->
                 LET before == p > 1 /\ text[p - 1] \in WordChars
                     after == p <= Len(text) /\ text[p] \in WordChars
                 IN  IF before # after
                     THEN MatchFrom(items, i + 1, text, p)
                     ELSE 0
          [] item.k = "run" ->
                 LET stop == { q \in p..Len(text) :
                                 (text[q] \in item.of) = item.negated }
                     longest == IF stop = {} THEN Len(text) + 1 ELSE Least(stop)
                     ends == { q \in (p + item.min)..longest :
                                 MatchFrom(items, i + 1, text, q) # 0 }
                 IN  IF ends = {} THEN 0
                     ELSE MatchFrom(items, i + 1, text,
                              CHOOSE q \in ends : \A r \in ends : r <= q)

\* The pattern tried at position p: its first alternative that matches.
PatternMatchEnd(pattern, text, p) ==
    LET hits == { a \in DOMAIN pattern : MatchFrom(pattern[a], 1, text, p) # 0 }
    IN  IF hits = {} THEN 0 ELSE MatchFrom(pattern[Least(hits)], 1, text, p)

\* RegExp.prototype.exec of a global pattern whose lastIndex is last: the
\* leftmost match starting at or after lastIndex; the new lastIndex, or 0
\* when exec returns null.  No pattern of the catalog matches the empty
\* string, so a new lastIndex is never 0.
RegExpExec(pattern, text, last) ==
    LET starts == { p \in (last + 1)..(Len(text) + 1) :
                      PatternMatchEnd(pattern, text, p) # 0 }
    IN  IF starts = {} THEN 0
        ELSE PatternMatchEnd(pattern, text, Least(starts)) - 1

\* The matches exec finds one after the other, starting with lastIndex last
RECURSIVE MatchesFrom(_, _, _)
MatchesFrom(pattern, text, last) ==
    LET next == RegExpExec(pattern, text, last)
    IN  IF next = 0 THEN 0 ELSE 1 + MatchesFrom(pattern, text, next)

\* A match() that resumes where the pattern's last use stopped and leaves
\* lastIndex behind its first match.
StringMatch_KeepsLastIndex(pattern, text, last) ==
    [ count |-> MatchesFrom(pattern, text, last),
      lastIndex |-> RegExpExec(pattern, text, last) ]

\* code.match(pattern) with the g flag: lastIndex is set to 0, exec is
\* repeated until it returns null (which leaves lastIndex 0); the number of
\* matches (0 for null) and the lastIndex left behind.
StringMatch(pattern, text, last) ==
    [ count |-> MatchesFrom(pattern, text, 0), lastIndex |-> 0 ]

\* getSeverityForPattern(patternName)
getSeverityForPattern(patternName) ==
    LET severityMap == [ varUsage |-> "Medium", consoleLog |-> "Low",
                         anyType |-> "Medium", tsIgnore |-> "High",
                         execUsage |-> "High", evalUsage |-> "High",
                         systemOut |-> "Medium", mutableDefault |-> "Medium" ]
    IN  IF patternName \in DOMAIN severityMap
        THEN severityMap[patternName] ELSE "Low"

\* analyzeLanguageSpecific(code, language), the RegExp objects having the
\* lastIndex values last: the issues it returns.  A language with no catalog
\* gives the empty list; a name inherited from Object.prototype passes the
\* test and Object.entries(undefined) raises.
analyzeLanguageSpecific(text, lang, last) ==
    IF lang \in ObjectPrototypeKeys
    THEN Threw("TypeError: Cannot convert undefined or null to object")
    ELSE IF lang \notin DOMAIN languageRules THEN Ok(<<>>)
    ELSE
        LET rules == languageRules[lang]
            matches == [ i \in DOMAIN rules |->
                           StringMatch(rules[i].pattern, text,
                                       last[rules[i].name]).count ]
            hits == { i \in DOMAIN rules : matches[i] > 0 }
        IN  Ok([ n \in 1..Cardinality(hits) |->
                   LET i == CHOOSE j \in hits :
                                Cardinality({ h \in hits : h <= j }) = n
                   IN  [ type |-> rules[i].name,
                         description |->
                             "Detected " \o rules[i].name \o " pattern",
                         count |-> matches[i],
                         severity |-> getSeverityForPattern(rules[i].name) ] ])

\* What that call leaves in the lastIndex of the RegExp objects
LastIndexAfter(text, lang, last) ==
    IF lang \notin DOMAIN languageRules THEN last
    ELSE
        LET rules == languageRules[lang]
        IN  [ r \in PatternNames |->
                IF \E i \in DOMAIN rules : rules[i].name = r
                THEN LET i == CHOOSE j \in DOMAIN rules : rules[j].name = r
                     IN  StringMatch(rules[i].pattern, text, last[r]).lastIndex
                ELSE last[r] ]

\* No request in flight, no webhook delivery, no pre-commit run and no
\* style check yet
InitTasks ==
    /\ requests = <<>>
    /\ webhook = Pending
    /\ precommit = Pending
    /\ styleCheck = Pending

\* No call of the detector made yet
InitDetect ==
    /\ language = "javascript"
    /\ detections = <<>>
    /\ lastIndex = [ r \in PatternNames |-> 0 ]

-----------------------------------------------------------------------------
\* Before the scanner and the performance estimator have been applied
InitServices ==
    /\ securityScan = Pending
    /\ optimizedCode = <<>>
    /\ performance = Pending
    /\ explanation = Pending
    /\ InitDetect
    /\ InitTasks

-----------------------------------------------------------------------------
(* The texts the scorer is applied to                                      *)

Alphabet == { "i", "f", "x", " ", "\n" }

RECURSIVE SeqsUpTo(_, _)
SeqsUpTo(S, n) ==
    IF n = 0 THEN { <<>> }
    ELSE LET shorter == SeqsUpTo(S, n - 1)
         IN  shorter \cup { Append(s, c) : s \in shorter, c \in S }

SmallTexts == SeqsUpTo(Alphabet, MaxLen)

RepeatUnits ==
    { <<"i", "f", " ">>,
      <<"f", "o", "r", "\n">>,
      <<"w", "h", "i", "l", "e", "(">>,
      <<"c", "a", "s", "e", ":">>,
      <<"c", "a", "t", "c", "h", "{", "\n">>,
      <<"i", "f", "s", " ">>,
      <<"e", "l", "i", "f", ";">>,
      <<"i", "f", "(", "a", ")", "f", "o", "r", "(", ";", ";", ")", "\n">>,
      <<"x", "x", "x", "x", "x", "x", "x", "x", "x", "x">> }

RepeatedTexts == { Repeat(u, n) : u \in RepeatUnits, n \in 1..MaxRepeat }

T_Scenario ==
    <<"f", "u", "n", "c", "t", "i", "o", "n", " ", "f", "(", ")", "{", " ",
      "i", "f", "(", "a", ")", "{", "}", " ", "i", "f", "(", "b", ")", "{",
      "}", " ", "}">>
T_InnerHTML ==
    <<"a", ".", "i", "n", "n", "e", "r", "H", "T", "M", "L", "=", "b">>
T_Sql ==
    <<"q", "=", "\"", "S", "E", "L", "E", "C", "T", " ", "\"", "+", "x">>
T_Buffer ==
    <<"n", "e", "w", " ", "B", "u", "f", "f", "e", "r", "(", "1", ")">>
T_CalculateSum ==
    <<"f", "u", "n", "c", "t", "i", "o", "n", " ", "c", "a", "l", "c", "u",
      "l", "a", "t", "e", "S", "u", "m", "(", "a", ",", " ", "b", ")", " ",
      "{", "\n", " ", " ", "r", "e", "t", "u", "r", "n", " ", "a", " ", "+",
      " ", "b", ";", "\n", "}">>

T_FourLines == <<"a", "\n", "b", "\n", "a", "\n", "c">>

SampleTexts ==
    { T_Scenario, T_InnerHTML, T_Sql, T_Buffer, T_CalculateSum, T_FourLines }

Texts == SmallTexts \cup RepeatedTexts \cup SampleTexts

-----------------------------------------------------------------------------
(* Specification of the quality scorer: one text, scored once              *)

InitQuality ==
    /\ code \in Texts
    /\ quality = Pending
    /\ now = 0
    /\ reviewData = Pending
    /\ analysis = Pending
    /\ report = Pending
    /\ InitStores
    /\ InitHttp
    /\ InitServices

ScoreQuality ==
    /\ quality = Pending
    /\ quality' = getCodeQualityScore(code)
    /\ UNCHANGED <<code, now, reviewData, analysis, report>>
    /\ UNCHANGED <<storeVars, httpVars, teamVars, serviceVars>>

NextQuality == ScoreQuality

SpecQuality == InitQuality /\ [][NextQuality]_vars

-----------------------------------------------------------------------------
(* Specification of the security scanner: one text, scanned once.  The     *)
(* texts are the concatenations of up to MaxPieces fragments, each one of  *)
(* the substrings the scanner looks for or a near miss of one.             *)

S_evalWord == <<"e", "v", "a", "l">>

ScanPieces ==
    { S_innerHTML, S_eval, S_plus, S_SELECT, S_INSERT, S_windowLocation,
      S_redirect, S_evalWord }

RECURSIVE Concat(_)
Concat(pieces) ==
    IF pieces = <<>> THEN <<>> ELSE Head(pieces) \o Concat(Tail(pieces))

InitScan ==
    /\ \E pieces \in SeqsUpTo(ScanPieces, MaxPieces) : code = Concat(pieces)
    /\ quality = Pending
    /\ now = 0
    /\ reviewData = Pending
    /\ analysis = Pending
    /\ report = Pending
    /\ InitStores
    /\ InitHttp
    /\ InitServices

ScanSecurity ==
    /\ securityScan = Pending
    /\ securityScan' = Ok(getSecurityIssues(code))
    /\ UNCHANGED <<pureVars, now, storeVars, httpVars, teamVars>>
    /\ UNCHANGED <<optimizedCode, performance, explanation, detectVars,
                   taskVars>>

NextScan == ScanSecurity

SpecScan == InitScan /\ [][NextScan]_vars

-----------------------------------------------------------------------------
(* Specification of the performance estimator: an original and an          *)
(* optimized text, compared once and then explained.  The texts are the    *)
(* concatenations of up to MaxFragments fragments with loops, calls,       *)
(* braces and literals.                                                    *)

PerfPieces ==
    { <<"f", "o", "r", "(">>,
      <<"w", "h", "i", "l", "e", " ", "(">>,
      <<"f", "(">>,
      <<"{", "}">>,
      <<"{">>,
      <<"}">>,
      <<"[", "x", "]">> }

InitBench ==
    /\ \E pieces \in SeqsUpTo(PerfPieces, MaxFragments) :
           code = Concat(pieces)
    /\ quality = Pending
    /\ now = 0
    /\ reviewData = Pending
    /\ analysis = Pending
    /\ report = Pending
    /\ InitStores
    /\ InitHttp
    /\ securityScan = Pending
    /\ \E pieces \in SeqsUpTo(PerfPieces, MaxFragments) :
           optimizedCode = Concat(pieces)
    /\ performance = Pending
    /\ explanation = Pending
    /\ InitDetect
    /\ InitTasks

EstimatePerformanceImpact ==
    /\ performance = Pending
    /\ performance' = Ok(estimatePerformanceImpact(code, optimizedCode))
    /\ UNCHANGED <<pureVars, now, storeVars, httpVars, teamVars>>
    /\ UNCHANGED <<securityScan, optimizedCode, explanation, detectVars,
                   taskVars>>

GeneratePerformanceExplanation ==
    /\ performance # Pending
    /\ explanation = Pending
    /\ explanation' = Ok(generatePerformanceExplanation(performance.value))
    /\ UNCHANGED <<pureVars, now, storeVars, httpVars, teamVars>>
    /\ UNCHANGED <<securityScan, optimizedCode, performance, detectVars,
                   taskVars>>

NextBench == EstimatePerformanceImpact \/ GeneratePerformanceExplanation

SpecBench == InitBench /\ [][NextBench]_vars

-----------------------------------------------------------------------------
(* Specification of the formatter: one set of analysis results, structured *)
(* by structureCodeReviewOutput and then by createStructuredOutput         *)

Restrict(f, keys) == [ k \in keys |-> f[k] ]

Severities == { "High", "Medium", "Low" }

\* The issue lists the scanners can return.
SecurityLists ==
    { (IF x THEN << XssIssue >> ELSE <<>>)
      \o (IF q THEN << SqlInjectionIssue >> ELSE <<>>)
      \o (IF r THEN << OpenRedirectIssue >> ELSE <<>>) :
        x \in BOOLEAN, q \in BOOLEAN, r \in BOOLEAN }

DependencyLists == { <<>>, << DeprecatedApiIssue >> }

\* The issues of the shape the prompt asks the AI collaborator for.
AIIssues ==
    { [ type |-> "ai_finding", description |-> "d", severity |-> sv,
        suggestion |-> "s" ] : sv \in Severities }

AIIssueLists == SeqsUpTo(AIIssues, MaxIssues)

\* One list of an AI review: absent, or present with some issues.
AbsentList == [ present |-> FALSE ]
PresentList(l) == [ present |-> TRUE, list |-> l ]
OptionalField(key, option) ==
    IF option.present THEN [ k \in {key} |-> option.list ] ELSE EmptyObject

\* A parsed AI review: each of bugs, performance and refactor present or not.
ParsedReview(b, p, r) ==
    Spread(Spread(OptionalField("bugs", b), OptionalField("performance", p)),
           OptionalField("refactor", r))

RawReview == [ rawResponse |-> "not json" ]

SampleQuality == getCodeQualityScore(T_CalculateSum)

\* Results with one of the four parts absent.
PartialReviewData ==
    LET full == [ qualityScore |-> SampleQuality,
                  securityIssues |-> << XssIssue >>,
                  dependencyIssues |-> <<>>,
                  aiReview |-> RawReview ]
    IN  { Restrict(full, DOMAIN full \ {k}) : k \in DOMAIN full }

\* The analysis results: any lists of the scanners, and an AI review that is
\* the raw-text wrapper or a parsed object.
InitReport ==
    /\ \/ \E sec \in SecurityLists, dep \in DependencyLists :
            \E b \in { AbsentList } \cup { PresentList(l) : l \in AIIssueLists },
               p \in { AbsentList } \cup { PresentList(l) : l \in AIIssueLists },
               r \in { AbsentList } \cup { PresentList(l) : l \in AIIssueLists } :
                reviewData = [ qualityScore |-> SampleQuality,
                               securityIssues |-> sec,
                               dependencyIssues |-> dep,
                               aiReview |-> ParsedReview(b, p, r) ]
       \/ \E sec \in SecurityLists, dep \in DependencyLists :
            reviewData = [ qualityScore |-> SampleQuality,
                           securityIssues |-> sec,
                           dependencyIssues |-> dep,
                           aiReview |-> RawReview ]
       \/ reviewData \in PartialReviewData
    /\ analysis = Pending
    /\ report = Pending
    /\ now = 0
    /\ code = <<>>
    /\ quality = Pending
    /\ InitStores
    /\ InitHttp
    /\ InitServices

StructureOutput ==
    /\ analysis = Pending
    /\ analysis' = structureCodeReviewOutput(reviewData)
    /\ UNCHANGED <<code, quality, now, reviewData, report>>
    /\ UNCHANGED <<storeVars, httpVars, teamVars, serviceVars>>

CreateOutput ==
    /\ analysis # Pending
    /\ ~analysis.threw
    /\ report = Pending
    /\ report' = createStructuredOutput(analysis.value, now)
    /\ UNCHANGED <<code, quality, now, reviewData, analysis>>
    /\ UNCHANGED <<storeVars, httpVars, teamVars, serviceVars>>

NextReport == StructureOutput \/ CreateOutput

SpecReport == InitReport /\ [][NextReport]_vars

-----------------------------------------------------------------------------
(* Specification of the router and the feedback store                      *)

ContextFile == [ name |-> "util.js", content |-> <<"x">> ]

\* Request bodies of POST / and POST /interactive: code absent, empty or a
\* text; contextFiles absent or one file.
ReviewBodies ==
    { Restrict([ code |-> c, language |-> "javascript",
                 contextFiles |-> << ContextFile >> ], K) :
        c \in { <<>>, T_InnerHTML },
        K \in { {"language"} \cup X : X \in SUBSET {"code", "contextFiles"} } }

\* Request bodies of POST /learn: code as above; userId absent or a user.
LearnBodies ==
    { Restrict([ code |-> c, language |-> "javascript", userId |-> u ], K) :
        c \in { <<>>, T_InnerHTML }, u \in Users,
        K \in { {"language"} \cup X : X \in SUBSET {"code", "userId"} } }

\* The feedback objects users send: the one of the route's test, and one
\* that carries preferences and its own timestamp.
Feedbacks ==
    { [ suggestionId |-> "test-suggestion", approved |-> TRUE,
        comments |-> "This was helpful" ],
      [ approved |-> FALSE, preferences |-> [ style |-> "strict" ],
        timestamp |-> 999 ] }

\* Request bodies of POST /feedback: userId absent, empty or a user;
\* feedback absent or an object.
FeedbackBodies ==
    { Restrict([ userId |-> u, feedback |-> f ], K) :
        u \in Users \cup {""}, f \in Feedbacks,
        K \in SUBSET {"userId", "feedback"} }

\* The AI collaborator's answers to a review request.
GeminiResponses ==
    { GeminiError, GeminiText,
      GeminiJson([ bugs |-> << CHOOSE i \in AIIssues : i.severity = "High" >>,
                   performance |-> <<>>, refactor |-> <<>> ]) }

\* The answers a request consumes: none when it is rejected before the call.
ResponsesFor(body) ==
    IF CodeMissing(body) THEN { [ kind |-> "unused" ] } ELSE GeminiResponses

\* How many feedback objects have been stored so far.
StoredCount ==
    Cardinality(UNION { { <<u, i>> : i \in 1..Len(feedbackLog[u]) } :
                        u \in Users })

Init ==
    /\ InitStores
    /\ InitHttp
    /\ InitServices
    /\ now = 0
    /\ code = <<>>
    /\ quality = Pending
    /\ reviewData = Pending
    /\ analysis = Pending
    /\ report = Pending

PostReview ==
    \E body \in ReviewBodies :
      \E response \in ResponsesFor(body) :
        LET out == ReviewHandler(body, response, now)
        IN  /\ req' = [ route |-> "review", body |-> body ]
            /\ gemini' = response
            /\ res' = out.res
            /\ called' = out.called
            /\ UNCHANGED <<pureVars, storeVars, teamVars, serviceVars, now>>

PostInteractive ==
    \E body \in ReviewBodies :
      \E response \in ResponsesFor(body) :
        LET out == InteractiveHandler(body, response)
        IN  /\ req' = [ route |-> "interactive", body |-> body ]
            /\ gemini' = response
            /\ res' = out.res
            /\ called' = out.called
            /\ UNCHANGED <<pureVars, storeVars, teamVars, serviceVars, now>>

PostLearn ==
    \E body \in LearnBodies :
      \E response \in ResponsesFor(body) :
        LET out == LearnHandler(body, response)
        IN  /\ req' = [ route |-> "learn", body |-> body ]
            /\ gemini' = response
            /\ res' = out.res
            /\ called' = out.called
            /\ UNCHANGED <<pureVars, storeVars, teamVars, serviceVars, now>>

\* POST /feedback: reject a missing userId or feedback; else store the
\* feedback and confirm.
PostFeedback ==
    \E body \in FeedbackBodies :
        /\ req' = [ route |-> "feedback", body |-> body ]
        /\ gemini' = [ kind |-> "unused" ]
        /\ called' = {}
        /\ IF FeedbackMissing(body)
           THEN /\ res' = Response(400,
                              [ error |-> "User ID and feedback are required" ])
                /\ UNCHANGED <<storeVars, now>>
           ELSE /\ StoredCount < MaxFeedback
                /\ userFeedbackStorage' =
                       storeUserFeedback(userFeedbackStorage, body.userId,
                                         body.feedback, now)
                /\ feedbackLog' =
                       [ feedbackLog EXCEPT
                           ![body.userId] = Append(@, body.feedback) ]
                /\ now' = now + 1
                /\ res' = Json([ success |-> TRUE,
                                 message |-> "Feedback stored successfully" ])
        /\ UNCHANGED <<pureVars, teamVars, serviceVars>>

\* storeUserFeedback called on the service itself.
StoreUserFeedback ==
    \E u \in Users, f \in Feedbacks :
        /\ StoredCount < MaxFeedback
        /\ userFeedbackStorage' =
               storeUserFeedback(userFeedbackStorage, u, f, now)
        /\ feedbackLog' = [ feedbackLog EXCEPT ![u] = Append(@, f) ]
        /\ now' = now + 1
        /\ req' = [ route |-> "none" ]
        /\ gemini' = [ kind |-> "unused" ]
        /\ res' = Pending
        /\ called' = {}
        /\ UNCHANGED <<pureVars, teamVars, serviceVars>>

Next ==
    \/ PostReview
    \/ PostInteractive
    \/ PostLearn
    \/ PostFeedback
    \/ StoreUserFeedback

Spec == Init /\ [][Next]_vars

-----------------------------------------------------------------------------
(* Specification of the team insights service                              *)

PullRequest(author, types) ==
    [ author |-> author,
      analysis |-> [ issues |-> [ i \in 1..Len(types) |->
                                    [ type |-> types[i] ] ] ] ]

\* The batches handed to analyzeTeamCollaboration: one without a teamId,
\* one of team alpha, one without pullRequests.
TeamBatches ==
    { [ pullRequests |->
            << PullRequest("alice", <<"varUsage", "consoleLog", "varUsage">>),
               PullRequest("bob", <<"varUsage">>),
               [ author |-> "carol" ],
               PullRequest("alice", <<"longFunction">>) >> ],
      [ teamId |-> "alpha",
        pullRequests |->
            << PullRequest("dave", <<"evalUsage">>),
               PullRequest("erin", <<"magicNumber", "magicNumber">>) >> ],
      [ teamId |-> "alpha" ] }

InitTeam ==
    /\ InitStores
    /\ InitHttp
    /\ InitServices
    /\ now = 0
    /\ code = <<>>
    /\ quality = Pending
    /\ reviewData = Pending
    /\ analysis = Pending
    /\ report = Pending

AnalysesDone ==
    Cardinality(UNION { { <<t, i>> : i \in 1..Len(teamLog[t]) } :
                        t \in TeamIds })

\* One call of analyzeTeamCollaboration
Analyze(prData) ==
    LET out == analyzeTeamCollaboration(teamInsightsStorage, prData, now)
    IN  /\ teamBatch' = prData
        /\ teamResult' = out.returned
        /\ teamInsightsStorage' = out.storage
        /\ teamLog' =
               IF out.returned.threw THEN teamLog
               ELSE [ teamLog EXCEPT
                        ![out.returned.value.teamId] =
                            Append(@, out.returned.value) ]
        /\ now' = IF out.returned.threw THEN now ELSE now + 1
        /\ UNCHANGED <<pureVars, userFeedbackStorage, feedbackLog, httpVars,
                       serviceVars>>

AnalyzeTeamCollaboration ==
    \E prData \in TeamBatches :
        /\ AnalysesDone < MaxAnalyses
        /\ Analyze(prData)

NextTeam == AnalyzeTeamCollaboration

SpecTeam == InitTeam /\ [][NextTeam]_vars

-----------------------------------------------------------------------------
(* Specification of one team analysis: a batch of pull requests, analyzed  *)
(* once.  A generated batch has one pull request for each of up to         *)
(* MaxDevelopers authors, each with one of a few issue lists; the fixed    *)
(* batches add an author with several pull requests, a pull request        *)
(* without analysis, and ten authors.                                      *)

AuthorNames ==
    << "alice", "bob", "carol", "dave", "erin", "frank", "grace", "heidi",
       "ivan", "judy" >>

IssueLists ==
    { <<>>,
      << [ type |-> "varUsage" ] >>,
      << [ type |-> "varUsage" ], [ type |-> "varUsage" ] >>,
      << [ type |-> "longFunction" ] >>,
      << [ type |-> "evalUsage" ], [ type |-> "longFunction" ] >>,
      << [ description |-> "an issue without a type" ] >> }

BatchOf(lists) ==
    [ pullRequests |->
        [ i \in 1..Len(lists) |->
            [ author |-> AuthorNames[i],
              analysis |-> [ issues |-> lists[i] ] ] ] ]

\* Ten authors: three with one longFunction each, two with varUsage (three
\* occurrences between them), five without issues.
TenDevelopers ==
    BatchOf(<< << [ type |-> "longFunction" ] >>,
               << [ type |-> "longFunction" ] >>,
               << [ type |-> "longFunction" ] >>,
               << [ type |-> "varUsage" ], [ type |-> "varUsage" ] >>,
               << [ type |-> "varUsage" ] >>,
               <<>>, <<>>, <<>>, <<>>, <<>> >>)

AnalyzeOnce ==
    /\ teamBatch = Pending
    /\ \/ \E lists \in SeqsUpTo(IssueLists, MaxDevelopers) :
              Analyze(BatchOf(lists))
       \/ \E prData \in TeamBatches \cup {TenDevelopers} : Analyze(prData)

NextInsight == AnalyzeOnce

SpecInsight == InitTeam /\ [][NextInsight]_vars

-----------------------------------------------------------------------------
(* Claims about the team history (checked under SpecTeam)                  *)

\* C1: after any sequence of analyzeTeamCollaboration calls, every team's
\* history has at most 10 entries and is the last min(n, 10) insights
\* computed for that team, in the order they were stored.
C1_BoundedFifoHistory ==
    \A t \in TeamIds :
        LET history == getTeamInsightsHistory(teamInsightsStorage, t)
            n == Len(teamLog[t])
            m == Min(n, 10)
        IN  /\ Len(history) <= 10
            /\ Len(history) = m
            /\ \A i \in 1..m :
                   Restrict(history[i], DOMAIN teamLog[t][n - m + i])
                       = teamLog[t][n - m + i]

\* C1 witness: a team with more than 10 analyses, so its oldest entry has
\* been evicted.
C1_Witness ==
    \E t \in TeamIds :
        /\ Len(teamLog[t]) > 10
        /\ Len(getTeamInsightsHistory(teamInsightsStorage, t)) = 10

-----------------------------------------------------------------------------
(* Claims about the router and the feedback store (checked under Spec)     *)

CodeAbsentOrEmpty(body) == "code" \notin DOMAIN body \/ Len(body.code) = 0

\* C2: a POST / request with non-empty code whose scanners and AI review all
\* succeed is answered 200 with a body that has summary and details.
C2_ReviewAnswers200 ==
    (/\ req.route = "review"
     /\ ~CodeAbsentOrEmpty(req.body)
     /\ gemini.kind \in {"json", "text"})
        => /\ res.status = 200
           /\ {"summary", "details"} \subseteq DOMAIN res.body

\* C5: on POST /, /interactive and /learn a request without code, or with
\* the empty string, is answered 400 'Code is required'; no scanner or AI
\* function is called and no store changes.
C5_MissingCodeRejected ==
    [][ (/\ req'.route \in {"review", "interactive", "learn"}
         /\ CodeAbsentOrEmpty(req'.body))
            => /\ res' = [ status |-> 400,
                           body |-> [ error |-> "Code is required" ] ]
               /\ called' = {}
               /\ userFeedbackStorage' = userFeedbackStorage
               /\ teamInsightsStorage' = teamInsightsStorage ]_vars

\* C5 witness: the learn route rejected an empty code while feedback was
\* stored.
C5_Witness ==
    /\ req.route = "learn"
    /\ "code" \in DOMAIN req.body
    /\ req.body.code = <<>>
    /\ res.status = 400
    /\ userFeedbackStorage # EmptyObject

\* C6: from an empty store, getUserFeedbackHistory(u).feedback is the
\* sequence of feedback objects stored for u, in call order, each entry
\* holding every field of the stored object; a user with none gets {}.
C6_FeedbackHistory ==
    \A u \in Users :
        LET history == getUserFeedbackHistory(userFeedbackStorage, u)
            stored == feedbackLog[u]
        IN  IF stored = <<>> THEN DOMAIN history = {}
            ELSE /\ "feedback" \in DOMAIN history
                 /\ Len(history.feedback) = Len(stored)
                 /\ \A i \in 1..Len(stored) :
                        \A k \in DOMAIN stored[i] :
                            /\ k \in DOMAIN history.feedback[i]
                            /\ history.feedback[i][k] = stored[i][k]

\* C6 witness: two objects stored for one user, none for the other.
C6_Witness ==
    /\ Len(feedbackLog["u1"]) = 2
    /\ "timestamp" \in DOMAIN feedbackLog["u1"][2]
    /\ feedbackLog["u2"] = <<>>
    /\ Len(getUserFeedbackHistory(userFeedbackStorage, "u1").feedback) = 2

FeedbackList(storage, u) ==
    LET history == getUserFeedbackHistory(storage, u)
    IN  IF "feedback" \in DOMAIN history THEN history.feedback ELSE <<>>

\* C7: POST /feedback without userId or feedback is answered 400 'User ID
\* and feedback are required' and leaves the store alone; with both it
\* appends exactly one entry to that user's list and is answered 200 with
\* success = true and message 'Feedback stored successfully'.
C7_FeedbackRoute ==
    [][ req'.route = "feedback" =>
          LET body == req'.body
          IN  IF \/ "userId" \notin DOMAIN body
                 \/ body.userId = ""
                 \/ "feedback" \notin DOMAIN body
              THEN /\ res' = [ status |-> 400,
                               body |-> [ error |->
                                   "User ID and feedback are required" ] ]
                   /\ userFeedbackStorage' = userFeedbackStorage
              ELSE /\ res'.status = 200
                   /\ res'.body.success = TRUE
                   /\ res'.body.message = "Feedback stored successfully"
                   /\ LET before == FeedbackList(userFeedbackStorage,
                                                 body.userId)
                          after == FeedbackList(userFeedbackStorage',
                                                body.userId)
                      IN  /\ Len(after) = Len(before) + 1
                          /\ SubSeq(after, 1, Len(before)) = before
                   /\ \A u \in Users \ {body.userId} :
                          FeedbackList(userFeedbackStorage', u)
                              = FeedbackList(userFeedbackStorage, u) ]_vars

\* C7 witness: the route stored a second entry for a user.
C7_Witness ==
    /\ req.route = "feedback"
    /\ res.status = 200
    /\ Len(FeedbackList(userFeedbackStorage, req.body.userId)) = 2

-----------------------------------------------------------------------------
(* Claims about the formatter (checked under SpecReport)                   *)

Reported == report # Pending /\ ~report.threw

PartitionSizes(details) ==
    Len(details.security) + Len(details.dependencies) + Len(details.ai.bugs)
    + Len(details.ai.performance) + Len(details.ai.refactor)

\* C3: summary.totalIssues is the sum of the lengths of the five detail
\* partitions: security, dependencies, bugs, performance, refactor.
C3_TotalIsSumOfPartitions ==
    Reported =>
        report.value.summary.totalIssues = PartitionSizes(report.value.details)

\* C4: severityBreakdown.high + medium + low equals summary.totalIssues.
C4_BreakdownSumsToTotal ==
    Reported =>
        LET summary == report.value.summary
        IN  summary.severityBreakdown.high + summary.severityBreakdown.medium
            + summary.severityBreakdown.low = summary.totalIssues

-----------------------------------------------------------------------------
(* Claims about the quality scorer (checked under SpecQuality)             *)

Scored == quality # Pending

\* The words of a text are its maximal runs of word characters; WordAt is
\* the word that starts at p, when one starts there.
WordStartsAt(text, p) ==
    /\ text[p] \in WordChars
    /\ (p = 1 \/ text[p - 1] \notin WordChars)

WordEnd(text, p) ==
    CHOOSE q \in p..Len(text) :
        /\ \A r \in p..q : text[r] \in WordChars
        /\ (q = Len(text) \/ text[q + 1] \notin WordChars)

KeywordWords(text) ==
    { p \in 1..Len(text) :
        /\ WordStartsAt(text, p)
        /\ \E i \in 1..Len(controlFlowKeywords) :
               SubSeq(text, p, WordEnd(text, p)) = controlFlowKeywords[i] }

IfWords(text) ==
    { p \in KeywordWords(text) :
        SubSeq(text, p, WordEnd(text, p)) = <<"i", "f">> }

\* C8: getCodeQualityScore applied to the empty text returns score = 0.
C8_EmptyTextScoresZero ==
    (Scored /\ code = <<>>) => quality.score = 0

\* C9: for every text the score and each of complexity, duplication and
\* readability lie in [0, 100].
C9_ScoreAndMetricsInRange ==
    Scored =>
        /\ quality.score \in 0..100
        /\ quality.metrics.complexity \in 0..100
        /\ quality.metrics.duplication \in 0..100
        /\ quality.metrics.readability \in 0..100

\* C9 witness: a scored text whose complexity saturates.
C9_Witness ==
    /\ Scored
    /\ Cardinality(KeywordWords(code)) > 9
    /\ quality.metrics.complexity = 100

\* C10: complexity = min(100, 10 * (1 + k)) with k the number of words of
\* the text that are one of if, for, while, case, catch; two `if` words and
\* no other keyword give 30.
C10_ComplexityFormula ==
    Scored =>
        LET k == Cardinality(KeywordWords(code))
        IN  /\ quality.metrics.complexity = Min(100, 10 * (1 + k))
            /\ (k = 2 /\ Cardinality(IfWords(code)) = 2
                    => quality.metrics.complexity = 30)

\* C10 witness: the scenario text, two `if` words, scored 30.
C10_Witness ==
    /\ Scored
    /\ code = T_Scenario
    /\ Cardinality(IfWords(code)) = 2
    /\ quality.metrics.complexity = 30

\* The lines of a text read off its characters: a line starts at the first
\* position and after every line feed, and runs up to the next line feed.
LineStarts(text) ==
    {1} \cup { p + 1 : p \in { q \in 1..Len(text) : text[q] = "\n" } }

LineAt(text, p) ==
    LET stop == { q \in p..Len(text) : text[q] = "\n" }
        last == IF stop = {} THEN Len(text)
                ELSE (CHOOSE q \in stop : \A r \in stop : q <= r) - 1
    IN  SubSeq(text, p, last)

LineCount(text) == Cardinality(LineStarts(text))

DistinctLineCount(text) ==
    Cardinality({ LineAt(text, p) : p \in LineStarts(text) })

\* C11: with n the number of lines of the text and d the number of distinct
\* lines (blank lines included, compared exactly), n is never 0 and
\* duplication = round((n - d) / n * 100); four lines of which two are
\* identical give 25.
C11_DuplicationFormula ==
    Scored =>
        LET n == LineCount(code)
            d == DistinctLineCount(code)
        IN  /\ n > 0
            /\ quality.metrics.linesOfCode = n
            /\ quality.metrics.duplication = (200 * (n - d) + n) \div (2 * n)
            /\ (n = 4 /\ d = 3 => quality.metrics.duplication = 25)

\* C11 witness: a scored text of four lines, two of them identical.
C11_Witness ==
    /\ Scored
    /\ code = T_FourLines
    /\ LineCount(code) = 4
    /\ DistinctLineCount(code) = 3
    /\ quality.metrics.duplication = 25

-----------------------------------------------------------------------------
(* Claims about the security scanner (checked under SpecScan)              *)

Scanned == securityScan # Pending

\* The number of places of the text where a substring occurs
Occurrences(text, sub) ==
    Cardinality({ p \in 1..Len(text) :
                    /\ p + Len(sub) - 1 <= Len(text)
                    /\ \A i \in 1..Len(sub) : text[p + i - 1] = sub[i] })

XssMatches(text) ==
    Occurrences(text, S_innerHTML) + Occurrences(text, S_eval) > 0

SqlMatches(text) ==
    /\ Occurrences(text, S_plus) > 0
    /\ Occurrences(text, S_SELECT) + Occurrences(text, S_INSERT) > 0

RedirectMatches(text) ==
    Occurrences(text, S_windowLocation) + Occurrences(text, S_redirect) > 0

\* C12: getSecurityIssues returns the subsequence of [XSS (High),
\* SQL Injection (High), Open Redirect (Medium)] whose checks match the
\* text: one issue per matching check however often its substring occurs,
\* none for a check that does not match, each check independent of the
\* others.
C12_SecurityIssuesAreMatchingChecks ==
    Scanned =>
        LET Fires(issue) ==
                \/ issue.type = "XSS Vulnerability" /\ XssMatches(code)
                \/ issue.type = "SQL Injection" /\ SqlMatches(code)
                \/ issue.type = "Open Redirect" /\ RedirectMatches(code)
            checks == << [ type |-> "XSS Vulnerability", severity |-> "High" ],
                         [ type |-> "SQL Injection", severity |-> "High" ],
                         [ type |-> "Open Redirect", severity |-> "Medium" ] >>
            reported == [ i \in 1..Len(securityScan.value) |->
                            [ type |-> securityScan.value[i].type,
                              severity |-> securityScan.value[i].severity ] ]
        IN  reported = SelectSeq(checks, Fires)

\* C12 witness: a scanned text on which all three checks match and three
\* issues are returned.
C12_Witness ==
    /\ Scanned
    /\ XssMatches(code) /\ SqlMatches(code) /\ RedirectMatches(code)
    /\ Len(securityScan.value) = 3

\* A scanned text on which only the last check matches, several times over
C12_WitnessRepeated ==
    /\ Scanned
    /\ ~XssMatches(code) /\ ~SqlMatches(code)
    /\ Occurrences(code, S_redirect) > 1
    /\ Len(securityScan.value) = 1

-----------------------------------------------------------------------------
(* Claims about the performance estimator (checked under SpecBench).  As   *)
(* in the model, complexityScore is in halves and the gain in hundredths.  *)

Estimated == performance # Pending

\* C13: estimatedPerformanceGain is 0 when before.complexityScore is 0 and
\* otherwise max(0, (before - after) / before * 100 rounded to 2 decimals);
\* it is never negative and it is 0 when the two texts are identical.
C13_PerformanceGain ==
    Estimated =>
        LET before == performance.value.before.complexityScore
            after == performance.value.after.complexityScore
            gain == performance.value.estimatedPerformanceGain
        IN  /\ gain >= 0
            /\ before = 0 => gain = 0
            /\ code = optimizedCode => gain = 0
            /\ before > 0 /\ after >= before => gain = 0
            /\ before > 0 /\ after < before =>
                   \* gain is the number of hundredths nearest to the ratio
                   /\ 2 * gain * before <= 20000 * (before - after) + before
                   /\ 2 * gain * before > 20000 * (before - after) - before

\* C13 witness: the optimized text scores higher than the original, whose
\* score is not 0, and the gain is 0.
C13_Witness ==
    /\ Estimated
    /\ performance.value.before.complexityScore > 0
    /\ performance.value.after.complexityScore
           > performance.value.before.complexityScore
    /\ performance.value.estimatedPerformanceGain = 0

\* An estimate with a gain between 0 and 100 that needed rounding
C13_WitnessRounded ==
    /\ Estimated
    /\ performance.value.estimatedPerformanceGain \in 1..9999
    /\ performance.value.estimatedPerformanceGain % 100 # 0

Explained == explanation # Pending

\* The sentences generatePerformanceExplanation can produce, in its order,
\* each with the improvement it reports
ExplanationSentences(improvements) ==
    << [ delta |-> improvements.loopReduction,
         text |-> LoopSentence(improvements.loopReduction) ],
       [ delta |-> improvements.callReduction,
         text |-> CallSentence(improvements.callReduction) ],
       [ delta |-> improvements.depthReduction,
         text |-> DepthSentence(improvements.depthReduction) ],
       [ delta |-> improvements.memoryReduction,
         text |-> MemorySentence(improvements.memoryReduction) ] >>

\* C14: generatePerformanceExplanation returns the sentences of exactly the
\* metrics whose improvement is strictly positive, in the order loop count,
\* call count, nesting depth, memory estimate, joined by single spaces; it
\* returns the empty string when no metric improved.
C14_ExplanationListsImprovedMetrics ==
    Explained =>
        LET Improved(sentence) == sentence.delta > 0
            kept == SelectSeq(ExplanationSentences(
                                  performance.value.improvements), Improved)
            text == explanation.value
        IN  /\ Len(kept) = 0 => text = ""
            /\ Len(kept) = 1 => text = kept[1].text
            /\ Len(kept) = 2 => text = kept[1].text \o " " \o kept[2].text
            /\ Len(kept) = 3 =>
                   text = kept[1].text \o " " \o kept[2].text \o " "
                          \o kept[3].text
            /\ Len(kept) = 4 =>
                   text = kept[1].text \o " " \o kept[2].text \o " "
                          \o kept[3].text \o " " \o kept[4].text

\* C14 witness: an explanation of a comparison in which one metric
\* improved, one is unchanged and one got worse.
C14_Witness ==
    /\ Explained
    /\ performance.value.improvements.loopReduction > 0
    /\ performance.value.improvements.depthReduction = 0
    /\ performance.value.improvements.memoryReduction < 0
    /\ explanation.value # ""

\* An explanation of a comparison in which nothing improved
C14_WitnessEmpty ==
    /\ Explained
    /\ code # optimizedCode
    /\ performance.value.improvements.loopReduction <= 0
    /\ performance.value.improvements.callReduction < 0
    /\ performance.value.improvements.depthReduction <= 0
    /\ performance.value.improvements.memoryReduction <= 0
    /\ explanation.value = ""

-----------------------------------------------------------------------------
(* Claims about one team analysis (checked under SpecInsight)              *)

Analyzed == teamResult # Pending /\ ~teamResult.threw

\* The key findCommonIssues files an issue under
IssueKey(issue) == IF "type" \in DOMAIN issue THEN issue.type ELSE "unknown"

\* Read off the batch itself: its authors, the keys of the issues of its
\* pull requests, and the authors with at least one issue of a given key.
AuthorsOf(batch) ==
    { batch.pullRequests[i].author : i \in 1..Len(batch.pullRequests) }

KeysOf(batch) ==
    UNION { { IssueKey(IssuesOf(batch.pullRequests[i])[j]) :
                j \in 1..Len(IssuesOf(batch.pullRequests[i])) } :
            i \in 1..Len(batch.pullRequests) }

AuthorsExhibiting(batch, key) ==
    { batch.pullRequests[i].author :
        i \in { k \in 1..Len(batch.pullRequests) :
                  \E j \in 1..Len(IssuesOf(batch.pullRequests[k])) :
                      IssueKey(IssuesOf(batch.pullRequests[k])[j]) = key } }

\* C15: the frequency reported for an issue type is the number of distinct
\* authors with at least one issue of that type, not the number of
\* occurrences of the type.
C15_FrequencyCountsDistinctAuthors ==
    Analyzed =>
        \A i \in 1..Len(teamResult.value.commonIssues) :
            teamResult.value.commonIssues[i].frequency
                = Cardinality(AuthorsExhibiting(
                                  teamBatch,
                                  teamResult.value.commonIssues[i].type))

\* C16: a type is in commonIssues if and only if the number of distinct
\* authors exhibiting it is at least ceil(developerCount * 0.3); with ten
\* developers three authors suffice and two do not, however often the type
\* recurs in their issue lists.
C16_CommonIffEnoughAuthors ==
    Analyzed =>
        LET common == { teamResult.value.commonIssues[i].type :
                          i \in 1..Len(teamResult.value.commonIssues) }
            threshold == (3 * teamResult.value.developerCount + 9) \div 10
        IN  \A key \in KeysOf(teamBatch) \cup common :
                key \in common
                    <=> Cardinality(AuthorsExhibiting(teamBatch, key))
                            >= threshold

\* C17: bestPracticeViolations has one entry for each anti-pattern of the
\* fixed set exhibited by at least one author and none for any other type;
\* each count is the number of distinct authors exhibiting it (at most
\* developerCount), and the counts do not increase along the list.
C17_ViolationsCountAuthors ==
    Analyzed =>
        LET violations == teamResult.value.bestPracticeViolations
            exhibited == KeysOf(teamBatch) \cap
                             { "varUsage", "consoleLog", "anyType",
                               "tsIgnore", "globalUsage", "execUsage",
                               "evalUsage", "systemOut" }
        IN  /\ { violations[i].type : i \in 1..Len(violations) } = exhibited
            /\ Len(violations) = Cardinality(exhibited)
            /\ \A i \in 1..Len(violations) :
                   /\ violations[i].count
                          = Cardinality(AuthorsExhibiting(teamBatch,
                                                          violations[i].type))
                   /\ violations[i].count <= teamResult.value.developerCount
            /\ \A i \in 1..(Len(violations) - 1) :
                   violations[i].count >= violations[i + 1].count

\* C17 witness: two anti-patterns with different author counts, one of them
\* occurring more often than it has authors, beside a type outside the set.
C17_Witness ==
    /\ Analyzed
    /\ Len(teamResult.value.bestPracticeViolations) = 2
    /\ teamResult.value.bestPracticeViolations[1].count
           > teamResult.value.bestPracticeViolations[2].count
    /\ "longFunction" \in KeysOf(teamBatch)
    /\ \E i \in 1..Len(teamResult.value.commonIssues) :
           /\ teamResult.value.commonIssues[i].type
                  = teamResult.value.bestPracticeViolations[1].type
           /\ teamResult.value.commonIssues[i].frequency
                  > teamResult.value.bestPracticeViolations[1].count

\* C18: recommendations has one entry per commonIssues entry followed by
\* one per bestPracticeViolations entry, in the order of those lists; a
\* common-issue entry is high iff its percentage is above 50, a violation
\* entry is high iff its percentage is above 40, and medium otherwise.
C18_RecommendationsFollowLists ==
    Analyzed =>
        LET common == teamResult.value.commonIssues
            violations == teamResult.value.bestPracticeViolations
            recommendations == teamResult.value.recommendations
        IN  /\ Len(recommendations) = Len(common) + Len(violations)
            /\ \A i \in 1..Len(common) :
                   /\ recommendations[i].type = "common_issue"
                   /\ recommendations[i].description[2] = common[i].type
                   /\ recommendations[i].priority \in { "high", "medium" }
                   /\ recommendations[i].priority = "high"
                          <=> common[i].percentage > 50
            /\ \A i \in 1..Len(violations) :
                   LET r == recommendations[Len(common) + i]
                   IN  /\ r.type = "best_practice"
                       /\ r.description[2] = violations[i].type
                       /\ r.priority \in { "high", "medium" }
                       /\ r.priority = "high" <=> violations[i].percentage > 40

\* C18 witness: recommendations for two common issues and a violation, with
\* a common issue at exactly 50% (medium) and a violation at exactly 50%
\* (high).
C18_Witness ==
    /\ Analyzed
    /\ Len(teamResult.value.commonIssues) >= 2
    /\ Len(teamResult.value.bestPracticeViolations) >= 1
    /\ \E i \in 1..Len(teamResult.value.commonIssues) :
           /\ teamResult.value.commonIssues[i].percentage = 50
           /\ teamResult.value.recommendations[i].priority = "medium"
    /\ \E i \in 1..Len(teamResult.value.bestPracticeViolations) :
           /\ teamResult.value.bestPracticeViolations[i].percentage = 50
           /\ teamResult.value.recommendations[
                  Len(teamResult.value.commonIssues) + i].priority = "high"

\* C19: an empty list of pull requests does not raise; the insight has
\* developerCount = 0 and empty commonIssues, bestPracticeViolations and
\* recommendations, and a percentage exists only where there is at least
\* one developer to divide by.
C19_EmptyBatchGivesEmptyInsight ==
    /\ (teamBatch # Pending /\ "pullRequests" \in DOMAIN teamBatch
           /\ teamBatch.pullRequests = <<>>) =>
           /\ ~teamResult.threw
           /\ teamResult.value.developerCount = 0
           /\ teamResult.value.commonIssues = <<>>
           /\ teamResult.value.bestPracticeViolations = <<>>
           /\ teamResult.value.recommendations = <<>>
    /\ Analyzed =>
           (Len(teamResult.value.commonIssues)
                + Len(teamResult.value.bestPracticeViolations) > 0
            => teamResult.value.developerCount > 0)

\* C19 witness: the empty batch, analyzed and stored.
C19_Witness ==
    /\ Analyzed
    /\ teamBatch.pullRequests = <<>>
    /\ teamResult.value.developerCount = 0
    /\ Len(teamInsightsStorage["default"]) = 1

-----------------------------------------------------------------------------
(* Claims about the effect of a team analysis on the histories (checked    *)
(* under SpecTeam)                                                         *)

\* C20: a successful analyzeTeamCollaboration call returns the insight it
\* computed (not the history) and appends exactly one entry for it to the
\* history of its teamId ('default' when the batch names none), evicting at
\* most that team's oldest entry; the other teams' histories are unchanged,
\* and a call that raises leaves every history unchanged.
C20_AnalysisTouchesOneHistory ==
    [][ IF teamResult'.threw
        THEN teamInsightsStorage' = teamInsightsStorage
        ELSE LET teamId == IF "teamId" \in DOMAIN teamBatch'
                           THEN teamBatch'.teamId ELSE "default"
                 insight == teamResult'.value
                 before == getTeamInsightsHistory(teamInsightsStorage, teamId)
                 after == getTeamInsightsHistory(teamInsightsStorage', teamId)
                 kept == SubSeq(after, 1, Len(after) - 1)
             IN  /\ DOMAIN insight = { "teamId", "analysisPeriod",
                                       "developerCount", "commonIssues",
                                       "bestPracticeViolations",
                                       "recommendations" }
                 /\ insight.teamId = teamId
                 /\ Len(after) >= 1
                 /\ Restrict(after[Len(after)], DOMAIN insight) = insight
                 /\ kept = before \/ kept = Tail(before)
                 /\ DOMAIN teamInsightsStorage'
                        = DOMAIN teamInsightsStorage \cup {teamId}
                 /\ \A t \in DOMAIN teamInsightsStorage \ {teamId} :
                        teamInsightsStorage'[t] = teamInsightsStorage[t]
      ]_vars

\* C20 witness: a successful analysis for team alpha, not its first, while
\* team default has a history of its own.
C20_Witness ==
    /\ Analyzed
    /\ "teamId" \in DOMAIN teamBatch
    /\ teamBatch.teamId = "alpha"
    /\ Len(getTeamInsightsHistory(teamInsightsStorage, "alpha")) >= 2
    /\ Len(getTeamInsightsHistory(teamInsightsStorage, "default")) >= 1

\* A call that raised after both teams had a history
C20_WitnessRaised ==
    /\ teamResult # Pending
    /\ teamResult.threw
    /\ Len(getTeamInsightsHistory(teamInsightsStorage, "alpha")) >= 1
    /\ Len(getTeamInsightsHistory(teamInsightsStorage, "default")) >= 1

-----------------------------------------------------------------------------
(* Claims about faults of the AI collaborator (checked under Spec)         *)

\* C21: a POST / request with code whose AI review fails, while the scorer
\* and the scanners succeed, still gets a report (status 200, with summary
\* and details) whose AI partitions are empty, not the 500 failure.
C21_AIFailureStillReports ==
    (/\ req.route = "review"
     /\ ~CodeAbsentOrEmpty(req.body)
     /\ gemini.kind = "error")
        => /\ res.status = 200
           /\ {"summary", "details"} \subseteq DOMAIN res.body
           /\ res.body.details.ai.bugs = <<>>
           /\ res.body.details.ai.performance = <<>>
           /\ res.body.details.ai.refactor = <<>>

\* C22: analyzeCode has three outcomes: the parsed object when the
\* collaborator's text is JSON, {rawResponse: text} when it is not, and the
\* fixed error exactly when the collaborator call fails; the aggregator
\* reads the raw-text wrapper as empty bugs, performance and refactor
\* lists.  POST /interactive without context files sends what analyzeCode
\* returned and answers 500 when it raised.
C22_AnalyzeCodeOutcomes ==
    (req.route = "interactive" /\ called = { "analyzeCode" }) =>
        /\ gemini.kind \in { "json", "text", "error" }
        /\ gemini.kind = "json" =>
               res = [ status |-> 200, body |-> gemini.value ]
        /\ gemini.kind = "text" =>
               /\ res = [ status |-> 200,
                          body |-> [ rawResponse |-> gemini.text ] ]
               /\ LET structured ==
                          structureCodeReviewOutput(
                              [ qualityScore |->
                                    getCodeQualityScore(req.body.code),
                                securityIssues |-> <<>>,
                                dependencyIssues |-> <<>>,
                                aiReview |-> res.body ])
                  IN  /\ ~structured.threw
                      /\ structured.value.summary.totalIssues = 0
                      /\ structured.value.aiAnalysis
                             = [ bugs |-> <<>>, performance |-> <<>>,
                                 refactor |-> <<>> ]
        /\ res.status = 500 <=> gemini.kind = "error"

\* C22 witness: the collaborator answered a text that is not JSON and the
\* route sent the raw-text wrapper.
C22_Witness ==
    /\ req.route = "interactive"
    /\ called = { "analyzeCode" }
    /\ gemini.kind = "text"
    /\ res.status = 200
    /\ DOMAIN res.body = { "rawResponse" }

-----------------------------------------------------------------------------
(* Claims about the labels and the error path of the formatter (checked    *)
(* under SpecReport)                                                       *)

\* An entry of the report keeps what the detector said of the issue: its
\* severity, and its type under some key beside the label.
KeepsDetectorData(entry, issue) ==
    /\ entry.severity = issue.severity
    /\ \E k \in DOMAIN entry : entry[k] = issue.type

\* C23: an issue tagged with its partition's label (Security, Dependency,
\* Bug, Performance, Refactor) still carries the type the detector gave it,
\* alongside the label, and the detector's severity.
C23_LabelKeepsOriginalType ==
    Reported =>
        /\ \A i \in 1..Len(report.value.details.security) :
               /\ report.value.details.security[i].type = "Security"
               /\ KeepsDetectorData(report.value.details.security[i],
                                    reviewData.securityIssues[i])
        /\ \A i \in 1..Len(report.value.details.dependencies) :
               /\ report.value.details.dependencies[i].type = "Dependency"
               /\ KeepsDetectorData(report.value.details.dependencies[i],
                                    reviewData.dependencyIssues[i])
        /\ \A i \in 1..Len(report.value.details.ai.bugs) :
               /\ report.value.details.ai.bugs[i].type = "Bug"
               /\ KeepsDetectorData(report.value.details.ai.bugs[i],
                                    reviewData.aiReview.bugs[i])

\* C24: structureCodeReviewOutput followed by createStructuredOutput does
\* not raise: an absent security, dependency, bugs, performance or refactor
\* list is read as empty and a report is produced.
C24_AbsentListsAreEmpty ==
    (/\ analysis # Pending
     /\ { "qualityScore", "aiReview" } \subseteq DOMAIN reviewData) =>
        /\ ~analysis.threw
        /\ "securityIssues" \notin DOMAIN reviewData
               => analysis.value.security = <<>>
        /\ "dependencyIssues" \notin DOMAIN reviewData
               => analysis.value.dependencies = <<>>
        /\ "bugs" \notin DOMAIN reviewData.aiReview
               => analysis.value.aiAnalysis.bugs = <<>>
        /\ report # Pending => ~report.threw

-----------------------------------------------------------------------------
(* Specification of the pattern detector: a text and a language, then up    *)
(* to MaxCalls calls of analyzeLanguageSpecific, each with that text or a   *)
(* second one; the second one is also tried with a language that has no     *)
(* catalog.                                                                 *)

\* Fragments that make the rules of each catalog match, or spoil a match
DetectPieces ==
    [ javascript |-> { <<"a", "s", "y", "n", "c", " ", "f", "u", "n", "c", "t", "i", "o", "n">>, <<"a", "s", "y", "n", "c", " ", "(", "x", ")", " ", "=", ">">>, <<".", "t", "h", "e", "n", "(">>,
                       <<".", "c", "a", "t", "c", "h", "(">>, <<"v", "a", "r", " ">>, <<"c", "o", "n", "s", "o", "l", "e", ".", "l", "o", "g">>, <<"x">> },
      typescript |-> { <<":", " ", "a", "n", "y">>, <<"<", "a", "n", "y", ">">>, <<"!", ".">>, <<"@", "t", "s", "-", "i", "g", "n", "o", "r", "e">>, <<"x">> },
      python |-> { <<"g", "l", "o", "b", "a", "l", " ">>, <<"e", "x", "e", "c">>, <<"e", "v", "a", "l">>, <<"d", "e", "f", " ", "f", "(", "a", "=", "[", "]", ")">>, <<"\n">>,
                   <<"x">> },
      java |-> { <<"S", "y", "s", "t", "e", "m", ".", "o", "u", "t", ".", "p", "r", "i", "n", "t">>, <<"L", "i", "s", "t", "<", "T", ">">>, <<"+", " ", "\"">>, <<"=", "=", " ", "n", "u", "l", "l">>,
                 <<"x">> } ]

\* A text with a match for one rule of every catalog
T_EveryCatalog == <<"v", "a", "r", " ", "e", "v", "a", "l", ":", "a", "n", "y", "=", "=", "n", "u", "l", "l">>

\* Language names with no catalog; the second one is a property every
\* object inherits.
UnknownLanguages == { "ruby", "constructor" }

InitLanguage ==
    /\ \E lang \in DOMAIN languageRules \cup UnknownLanguages :
         \E a, b \in { <<>> } \cup
                     (IF lang \in DOMAIN languageRules
                      THEN DetectPieces[lang] ELSE { T_EveryCatalog }) :
            /\ language = lang
            /\ code = a \o b
    /\ quality = Pending
    /\ now = 0
    /\ reviewData = Pending
    /\ analysis = Pending
    /\ report = Pending
    /\ InitStores
    /\ InitHttp
    /\ securityScan = Pending
    /\ optimizedCode = <<>>
    /\ performance = Pending
    /\ explanation = Pending
    /\ detections = <<>>
    /\ lastIndex = [ r \in PatternNames |-> 0 ]
    /\ InitTasks

AnalyzeLanguageSpecific ==
    \E text \in { code, T_EveryCatalog }, lang \in { language, "ruby" } :
        /\ Len(detections) < MaxCalls
        /\ lang = language \/ text = T_EveryCatalog
        /\ detections' =
               Append(detections,
                      [ code |-> text, language |-> lang,
                        result |-> analyzeLanguageSpecific(text, lang, lastIndex) ])
        /\ lastIndex' = LastIndexAfter(text, lang, lastIndex)
        /\ UNCHANGED <<pureVars, now, storeVars, httpVars, teamVars, scanVars,
                       language, taskVars>>

NextLanguage == AnalyzeLanguageSpecific

SpecLanguage == InitLanguage /\ [][NextLanguage]_vars

\* C25: a call with a language that has no catalog applies the rules of a
\* default catalog, so that a text matching a rule of that catalog yields the
\* rule's issue: some catalog accounts for the result of every such call.
C25_UnknownLanguageUsesDefault ==
    \E default \in DOMAIN languageRules :
        \A i \in DOMAIN detections :
            detections[i].language \notin DOMAIN languageRules =>
                detections[i].result =
                    analyzeLanguageSpecific(detections[i].code, default,
                                            [ r \in PatternNames |-> 0 ])

\* The rules of a catalog that match a text at least once, in catalog order
MatchingRules(text, lang) ==
    SelectSeq(languageRules[lang],
              LAMBDA rule : MatchesFrom(rule.pattern, text, 0) > 0)

\* The fixed rule-to-severity table
SeverityTable(name) ==
    IF name \in { "tsIgnore", "execUsage", "evalUsage" } THEN "High"
    ELSE IF name \in { "varUsage", "anyType", "systemOut", "mutableDefault" }
    THEN "Medium"
    ELSE "Low"

\* C26: for a known language the detector returns one issue for each rule of
\* the catalog with at least one match and none for the others, in catalog
\* order, with count the number of matches and the severity of the table;
\* and two calls with the same text and language return the same list,
\* whatever calls were made in between.
C26_DetectionIsPureAndOrdered ==
    /\ \A i \in DOMAIN detections :
         detections[i].language \in DOMAIN languageRules =>
            LET expected == MatchingRules(detections[i].code,
                                          detections[i].language)
                issues == detections[i].result.value
            IN  /\ ~detections[i].result.threw
                /\ Len(issues) = Len(expected)
                /\ \A n \in DOMAIN issues :
                     /\ issues[n].type = expected[n].name
                     /\ issues[n].count =
                            MatchesFrom(expected[n].pattern,
                                        detections[i].code, 0)
                     /\ issues[n].count > 0
                     /\ issues[n].severity = SeverityTable(issues[n].type)
    /\ \A i, j \in DOMAIN detections :
         ( /\ detections[i].code = detections[j].code
           /\ detections[i].language = detections[j].language )
         => detections[i].result = detections[j].result

\* The same text and known language asked about twice with another call in
\* between, a rule matching it twice
C26_Witness ==
    /\ Len(detections) = MaxCalls
    /\ detections[1].language \in DOMAIN languageRules
    /\ detections[1].code = detections[Len(detections)].code
    /\ detections[1].language = detections[Len(detections)].language
    /\ \E k \in 2..(Len(detections) - 1) :
         detections[k].code # detections[1].code
    /\ \E n \in DOMAIN detections[1].result.value :
         detections[1].result.value[n].count >= 2

\* Two rules of a catalog matching one text, a third one not
C26_WitnessOrder ==
    \E i \in DOMAIN detections :
        /\ detections[i].language = "javascript"
        /\ Len(detections[i].result.value) = 2
        /\ detections[i].result.value[1].type = "promiseChaining"
        /\ detections[i].result.value[2].type = "consoleLog"

\* A greedy ".*" swallowing a second definition on the same line: one match
C26_WitnessGreedy ==
    \E i \in DOMAIN detections :
        /\ detections[i].language = "python"
        /\ Len(detections[i].code) > Len(T_EveryCatalog)
        /\ \E n \in DOMAIN detections[i].result.value :
             /\ detections[i].result.value[n].type = "mutableDefault"
             /\ detections[i].result.value[n].count = 1

-----------------------------------------------------------------------------
(* Specification of concurrent requests.  Node runs one callback at a time *)
(* to its end: a synchronous function is one step, and an async function   *)
(* is one step up to each await.  MaxRequests requests are in flight and   *)
(* their steps interleave in every order: analyzeTeamCollaboration calls   *)
(* (synchronous), POST /feedback (synchronous) and POST /learn, suspended  *)
(* at `await model.generateContent(prompt)` and `await result.response`.   *)
(* Team "default" starts with an empty history or with one that is one     *)
(* short of the limit.                                                     *)

MaxRequests == 3   \* requests in flight at once

\* The requests that can be in flight
RequestKinds ==
    << [ call |-> "analyzeTeamCollaboration",
         prData |-> CHOOSE b \in TeamBatches : "teamId" \notin DOMAIN b ],
       [ call |-> "analyzeTeamCollaboration",
         prData |-> CHOOSE b \in TeamBatches :
                        "teamId" \in DOMAIN b /\ "pullRequests" \in DOMAIN b ],
       [ call |-> "POST /feedback",
         body |-> [ userId |-> "u1",
                    feedback |-> CHOOSE f \in Feedbacks :
                                     "preferences" \in DOMAIN f ] ],
       [ call |-> "POST /feedback",
         body |-> [ userId |-> "u2",
                    feedback |-> CHOOSE f \in Feedbacks :
                                     "preferences" \notin DOMAIN f ] ],
       [ call |-> "POST /learn",
         body |-> [ code |-> T_InnerHTML, language |-> "javascript",
                    userId |-> "u1" ] ] >>

\* The team store and its log after n analyses of the batch of team
\* "default", one after the other
RECURSIVE AfterAnalyses(_)
AfterAnalyses(n) ==
    IF n = 0
    THEN [ storage |-> EmptyObject, log |-> [ t \in TeamIds |-> <<>> ] ]
    ELSE LET before == AfterAnalyses(n - 1)
             out == analyzeTeamCollaboration(before.storage,
                                             RequestKinds[1].prData, n - 1)
         IN  [ storage |-> out.storage,
               log |-> [ before.log EXCEPT
                           ![out.returned.value.teamId] =
                               Append(@, out.returned.value) ] ]

InitAsync ==
    /\ \E n \in { 0, HistoryLimit - 1 } :
          /\ teamInsightsStorage = AfterAnalyses(n).storage
          /\ teamLog = AfterAnalyses(n).log
          /\ now = n
    /\ \E kinds \in [ 1..MaxRequests -> DOMAIN RequestKinds ] :
          /\ \A i, j \in 1..MaxRequests : i <= j => kinds[i] <= kinds[j]
          /\ requests = [ r \in 1..MaxRequests |->
                            Spread(RequestKinds[kinds[r]], [ pc |-> "queued" ]) ]
    /\ userFeedbackStorage = EmptyObject
    /\ feedbackLog = [ u \in Users |-> <<>> ]
    /\ teamBatch = Pending
    /\ teamResult = Pending
    /\ InitHttp
    /\ code = <<>>
    /\ quality = Pending
    /\ reviewData = Pending
    /\ analysis = Pending
    /\ report = Pending
    /\ securityScan = Pending
    /\ optimizedCode = <<>>
    /\ performance = Pending
    /\ explanation = Pending
    /\ InitDetect
    /\ webhook = Pending
    /\ precommit = Pending
    /\ styleCheck = Pending

\* What each step of a request leaves alone
AsyncFrame ==
    UNCHANGED <<pureVars, httpVars, teamBatch, teamResult, scanVars,
                detectVars, webhook, precommit, styleCheck>>

\* A team analysis that waits while a review is suspended at an await
TeamWrite_WaitsForReviews(r, out) ==
    /\ requests[r].call = "analyzeTeamCollaboration"
    /\ requests[r].pc = "queued"
    /\ \A q \in DOMAIN requests : requests[q].pc \in { "queued", "done" }
    /\ teamInsightsStorage' = out.storage
    /\ teamLog' = [ teamLog EXCEPT
                      ![out.returned.value.teamId] =
                          Append(@, out.returned.value) ]
    /\ requests' = [ requests EXCEPT
                       ![r] = Spread(@, [ pc |-> "done", at |-> now,
                                          returned |-> out.returned ]) ]
    /\ now' = now + 1
    /\ UNCHANGED <<userFeedbackStorage, feedbackLog>>
    /\ AsyncFrame

\* The step of a team analysis whose call comes to out
TeamWrite(r, out) ==
    /\ requests[r].call = "analyzeTeamCollaboration"
    /\ requests[r].pc = "queued"
    /\ teamInsightsStorage' = out.storage
    /\ teamLog' = [ teamLog EXCEPT
                      ![out.returned.value.teamId] =
                          Append(@, out.returned.value) ]
    /\ requests' = [ requests EXCEPT
                       ![r] = Spread(@, [ pc |-> "done", at |-> now,
                                          returned |-> out.returned ]) ]
    /\ now' = now + 1
    /\ UNCHANGED <<userFeedbackStorage, feedbackLog>>
    /\ AsyncFrame

\* analyzeTeamCollaboration(prData), from its first line to its return
RunTeamAnalysis(r) ==
    TeamWrite(r, analyzeTeamCollaboration(teamInsightsStorage,
                                          requests[r].prData, now))

\* The handler of POST /feedback, from its first line to res.json
HandleFeedback(r) ==
    /\ requests[r].call = "POST /feedback"
    /\ requests[r].pc = "queued"
    /\ userFeedbackStorage' =
           storeUserFeedback(userFeedbackStorage, requests[r].body.userId,
                             requests[r].body.feedback, now)
    /\ feedbackLog' = [ feedbackLog EXCEPT
                          ![requests[r].body.userId] =
                              Append(@, requests[r].body.feedback) ]
    /\ requests' =
           [ requests EXCEPT
               ![r] = Spread(@, [ pc |-> "done", at |-> now,
                                  res |-> Json([ success |-> TRUE,
                                                 message |->
                                                   "Feedback stored successfully" ]) ]) ]
    /\ now' = now + 1
    /\ UNCHANGED <<teamInsightsStorage, teamLog>>
    /\ AsyncFrame

\* POST /learn up to `await model.generateContent(prompt)`: the user's stored
\* data is read and written into the prompt.
LearnStart(r) ==
    /\ requests[r].call = "POST /learn"
    /\ requests[r].pc = "queued"
    /\ requests' =
           [ requests EXCEPT
               ![r] = Spread(@, [ pc |-> "await generateContent",
                                  userPreferences |->
                                      getUserFeedbackHistory(
                                          userFeedbackStorage,
                                          requests[r].body.userId) ]) ]
    /\ UNCHANGED <<storeVars, teamInsightsStorage, teamLog, now>>
    /\ AsyncFrame

\* generateContent settles: a rejection goes through both catch blocks to
\* the 500 response, a result leads to `await result.response`.
LearnContent(r) ==
    /\ requests[r].call = "POST /learn"
    /\ requests[r].pc = "await generateContent"
    /\ \E response \in GeminiResponses :
         requests' =
           [ requests EXCEPT
               ![r] = IF response.kind = "error"
                      THEN Spread(@, [ pc |-> "done",
                                       res |-> LearnHandler(requests[r].body,
                                                            response).res ])
                      ELSE Spread(@, [ pc |-> "await response",
                                       response |-> response ]) ]
    /\ UNCHANGED <<storeVars, teamInsightsStorage, teamLog, now>>
    /\ AsyncFrame

\* The response is there: its text is parsed and sent.
LearnRespond(r) ==
    /\ requests[r].call = "POST /learn"
    /\ requests[r].pc = "await response"
    /\ requests' =
           [ requests EXCEPT
               ![r] = Spread(@, [ pc |-> "done",
                                  res |-> LearnHandler(requests[r].body,
                                                       requests[r].response).res ]) ]
    /\ UNCHANGED <<storeVars, teamInsightsStorage, teamLog, now>>
    /\ AsyncFrame

\* The event loop runs the next step of some request
Turn(r) ==
    \/ RunTeamAnalysis(r)
    \/ HandleFeedback(r)
    \/ LearnStart(r)
    \/ LearnContent(r)
    \/ LearnRespond(r)

NextAsync == \E r \in DOMAIN requests : Turn(r)

SpecAsync == InitAsync /\ [][NextAsync]_vars

\* The requests that wrote under a key and are done, by the time of their
\* write
WritersOf(call, key) ==
    { r \in DOMAIN requests :
        /\ requests[r].call = call
        /\ requests[r].pc = "done"
        /\ key = IF call = "POST /feedback" THEN requests[r].body.userId
                 ELSE requests[r].returned.value.teamId }

\* C27: under any interleaving of team analyses, feedback stores and
\* suspended AI reviews, every write takes effect whole: each write that ran
\* is in its key's log at the place its time gives it, each team's history
\* is the last at most 10 of the team's log, each user's list is the user's
\* whole log, and the step of a request that has not finished is enabled
\* whatever the other requests are doing.
C27_WritesAreAtomicPerKey ==
    /\ \A t \in TeamIds :
         LET history == getTeamInsightsHistory(teamInsightsStorage, t)
             n == Len(teamLog[t])
             m == Min(n, HistoryLimit)
             writers == WritersOf("analyzeTeamCollaboration", t)
         IN  /\ Len(history) = m
             /\ \A i \in 1..m :
                  Restrict(history[i], DOMAIN teamLog[t][n - m + i])
                      = teamLog[t][n - m + i]
             /\ \A i, j \in 1..m :
                  i < j => history[i].timestamp < history[j].timestamp
             /\ \A r \in writers :
                  \E i \in 1..n :
                     /\ teamLog[t][i] = requests[r].returned.value
                     /\ teamLog[t][i].analysisPeriod.end = requests[r].at
                     /\ i > n - HistoryLimit => history[i - (n - m)].timestamp
                                                    = requests[r].at
             /\ n = Cardinality(writers)
                      + Cardinality({ i \in 1..n :
                            \A r \in writers :
                               teamLog[t][i].analysisPeriod.end # requests[r].at })
             /\ Cardinality({ i \in 1..n :
                      \A r \in writers :
                         teamLog[t][i].analysisPeriod.end # requests[r].at })
                  = IF t = "default" THEN now - Cardinality(
                        { r \in DOMAIN requests : "at" \in DOMAIN requests[r] })
                    ELSE 0
    /\ \A u \in Users :
         LET list == IF u \in DOMAIN userFeedbackStorage
                     THEN userFeedbackStorage[u].feedback ELSE <<>>
             writers == WritersOf("POST /feedback", u)
         IN  /\ Len(list) = Cardinality(writers)
             /\ Len(list) = Len(feedbackLog[u])
             /\ \A i \in DOMAIN list :
                  list[i] = FeedbackEntry(feedbackLog[u][i], list[i].timestamp)
             /\ \A r \in writers :
                  \E i \in DOMAIN list :
                     list[i] = FeedbackEntry(requests[r].body.feedback,
                                             requests[r].at)
    /\ \A r \in DOMAIN requests :
         requests[r].pc # "done" =>
            IF requests[r].call = "analyzeTeamCollaboration"
            THEN \E out \in { analyzeTeamCollaboration(teamInsightsStorage,
                                                       requests[r].prData,
                                                       now) } :
                     ENABLED TeamWrite(r, out)
            ELSE ENABLED Turn(r)

\* Two analyses of team "default" ran on a history one short of the limit,
\* with a feedback store or a suspended review in between or after them:
\* the oldest entry is gone.
C27_Witness ==
    /\ Cardinality(WritersOf("analyzeTeamCollaboration", "default")) = 2
    /\ Len(teamLog["default"]) = HistoryLimit + 1
    /\ \E r \in DOMAIN requests :
         /\ requests[r].call = "POST /learn"
         /\ requests[r].pc \in { "await generateContent", "await response" }

\* A review read the user's data, was suspended, and the user's feedback
\* was stored before it resumed
C27_WitnessSuspended ==
    \E r, w \in DOMAIN requests :
        /\ requests[r].call = "POST /learn"
        /\ requests[r].pc = "await response"
        /\ requests[r].userPreferences = EmptyObject
        /\ requests[w].call = "POST /feedback"
        /\ requests[w].pc = "done"
        /\ requests[w].body.userId = requests[r].body.userId

-----------------------------------------------------------------------------
(* Specification of the GitHub webhook: one delivery is received; when it  *)
(* announces an opened pull request the handler is suspended at            *)
(* `await analyzeGitHubPR(...)` until the calls to the GitHub API settle.  *)

\* analyzeGitHubPR, given what the two API calls do: the pull request and
\* the analysis of every file that is not removed, or the fixed error when a
\* call fails or a file has no content (Buffer.from(undefined) raises).
analyzeGitHubPR(api) ==
    IF api.pr.threw \/ api.files.threw
    THEN Threw("Failed to analyze GitHub PR")
    ELSE
        LET prFiles == api.files.value
            kept == SelectSeq(prFiles, LAMBDA file : file.status # "removed")
        IN  IF \E i \in DOMAIN kept : "content" \notin DOMAIN kept[i]
            THEN Threw("Failed to analyze GitHub PR")
            ELSE Ok([ pr |-> api.pr.value,
                      files |->
                        [ i \in DOMAIN kept |->
                            [ filename |-> kept[i].filename,
                              status |-> kept[i].status,
                              review |-> [ issues |-> <<>>,
                                           suggestions |-> <<>> ] ] ] ])

\* event === 'pull_request' && payload.action === 'opened'
IsOpenedPullRequest(event, payload) ==
    event = "pull_request" /\ Prop(payload, "action") = "opened"

\* The bodies of the deliveries, with or without action, repository and
\* pull_request
WebhookPayloads ==
    { Restrict([ action |-> a,
                 repository |-> [ full_name |-> "o/r", name |-> "r",
                                  owner |-> [ login |-> "o" ] ],
                 pull_request |-> [ number |-> 7 ] ], K) :
        a \in { "opened", "closed", "synchronize" },
        K \in SUBSET { "action", "repository", "pull_request" } }

\* The files the GitHub API lists for a pull request
PullRequestFiles ==
    { [ filename |-> "a.js", status |-> "added", content |-> "Y29kZQ==" ],
      [ filename |-> "b.js", status |-> "modified" ],
      [ filename |-> "c.js", status |-> "removed" ],
      [ filename |-> "d.js", status |-> "renamed", content |-> "" ] }

InitHook ==
    /\ Init
    /\ webhook = Pending

\* POST /github up to its first await or, when it gets that far, its
\* response: a delivery that is no opened pull request is acknowledged; an
\* opened one without repository or pull_request raises a TypeError, which
\* the catch block answers; a complete one calls analyzeGitHubPR.
ReceiveGitHubEvent ==
    \E event \in { Undefined, "pull_request", "push", "issues" },
       payload \in WebhookPayloads :
        /\ webhook = Pending
        /\ webhook' =
             IF ~IsOpenedPullRequest(event, payload)
             THEN [ event |-> event, payload |-> payload, pc |-> "done",
                    called |-> {},
                    responses |-> << Response(200,
                                       [ message |-> "Event received" ]) >> ]
             ELSE IF ~({ "repository", "pull_request" } \subseteq DOMAIN payload)
             THEN [ event |-> event, payload |-> payload, pc |-> "done",
                    called |-> {},
                    responses |-> << Response(500,
                                       [ error |-> "Failed to process webhook" ]) >> ]
             ELSE [ event |-> event, payload |-> payload,
                    pc |-> "await analyzeGitHubPR",
                    called |-> { "analyzeGitHubPR" },
                    responses |-> <<>> ]
        /\ UNCHANGED <<pureVars, now, storeVars, httpVars, teamVars, scanVars,
                       detectVars, requests, precommit, styleCheck>>

\* analyzeGitHubPR settles and the handler runs to its end: a rejection is
\* answered by the catch block; a result goes to structureCodeReviewOutput,
\* and what that raises is answered by the catch block too.
GitHubAnalysisSettles ==
    \E pr \in { Threw("Request failed"),
                Ok([ number |-> 7, title |-> "t", author |-> "o" ]) },
       files \in { Threw("Request failed") } \cup
                 { Ok(list) : list \in SeqsUpTo(PullRequestFiles, MaxFragments) } :
        /\ webhook # Pending
        /\ webhook.pc = "await analyzeGitHubPR"
        /\ LET analysisOut == analyzeGitHubPR([ pr |-> pr, files |-> files ])
               formatted == structureCodeReviewOutput(analysisOut.value)
           IN  webhook' =
                 Spread(webhook,
                   [ pc |-> "done",
                     api |-> [ pr |-> pr, files |-> files ],
                     analysis |-> analysisOut,
                     called |-> webhook.called \cup
                                (IF analysisOut.threw THEN {}
                                 ELSE { "structureCodeReviewOutput" }),
                     responses |->
                       Append(webhook.responses,
                         IF analysisOut.threw \/ formatted.threw
                         THEN Response(500,
                                [ error |-> "Failed to process webhook" ])
                         ELSE Response(200,
                                [ message |-> "PR analysis completed",
                                  pr |-> webhook.payload.pull_request.number,
                                  repository |->
                                    webhook.payload.repository.full_name ])) ])
        /\ UNCHANGED <<pureVars, now, storeVars, httpVars, teamVars, scanVars,
                       detectVars, requests, precommit, styleCheck>>

NextHook == ReceiveGitHubEvent \/ GitHubAnalysisSettles

SpecHook == InitHook /\ [][NextHook]_vars

\* C28: the webhook handler sends exactly one response per delivery: 200
\* 'PR analysis completed' for an opened pull request whose analysis
\* succeeds, 200 'Event received' without an analysis for every other event
\* or action, and 500 'Failed to process webhook' only when the analysis
\* raises.
C28_OneResponsePerDelivery ==
    (webhook # Pending /\ webhook.pc = "done") =>
        /\ Len(webhook.responses) = 1
        /\ IF IsOpenedPullRequest(webhook.event, webhook.payload)
           THEN ( "analysis" \in DOMAIN webhook /\ ~webhook.analysis.threw )
                => /\ webhook.responses[1].status = 200
                   /\ webhook.responses[1].body.message = "PR analysis completed"
           ELSE /\ webhook.responses[1] =
                       Response(200, [ message |-> "Event received" ])
                /\ "analyzeGitHubPR" \notin webhook.called
        /\ webhook.responses[1].status = 500
           => ( "analysis" \in DOMAIN webhook /\ webhook.analysis.threw )

\* What the handler does do: one response per delivery, 'Event received'
\* for what is no opened pull request, and 500 for every opened one.
WebhookAlwaysFails ==
    (webhook # Pending /\ webhook.pc = "done") =>
        /\ Len(webhook.responses) = 1
        /\ IsOpenedPullRequest(webhook.event, webhook.payload)
           <=> webhook.responses[1] =
                   Response(500, [ error |-> "Failed to process webhook" ])

-----------------------------------------------------------------------------
(* Specification of the pre-commit hook: git lists the staged files (or    *)
(* fails), each file is there or not, small or not, readable or not, and   *)
(* the AI collaborator answers or fails; runPreCommitReview runs once.     *)

\* A text the scorer rates 80 or more, with no security issue
T_ManyBranches == Repeat(<<"i", "f", " ">>, 8)

\* The size from which a file is skipped: 1 MB
SizeLimit == 1000000

\* isSupportedFileType(filename)
isSupportedFileType(file) ==
    file.ext \in { ".js", ".ts", ".jsx", ".tsx", ".py", ".java", ".cpp", ".c" }

\* The files git can list as staged
StagedFileKinds ==
    { [ name |-> "a", ext |-> ".js", exists |-> TRUE, size |-> 12,
        readable |-> TRUE, code |-> T_ManyBranches ],
      [ name |-> "b", ext |-> ".py", exists |-> TRUE, size |-> 12,
        readable |-> TRUE, code |-> T_CalculateSum ],
      [ name |-> "c", ext |-> ".ts", exists |-> TRUE, size |-> SizeLimit - 1,
        readable |-> TRUE, code |-> T_ManyBranches \o S_innerHTML ],
      [ name |-> "d", ext |-> ".md", exists |-> TRUE, size |-> 12,
        readable |-> TRUE, code |-> T_CalculateSum ],
      [ name |-> "e", ext |-> ".js", exists |-> FALSE, size |-> 12,
        readable |-> FALSE, code |-> T_CalculateSum ],
      [ name |-> "f", ext |-> ".js", exists |-> TRUE, size |-> SizeLimit,
        readable |-> TRUE, code |-> T_CalculateSum ],
      [ name |-> "g", ext |-> ".js", exists |-> TRUE, size |-> 12,
        readable |-> FALSE, code |-> <<>> ] }

\* getStagedFiles(): the names git prints, or [] when git fails
getStagedFiles(git) == IF git.threw THEN <<>> ELSE git.value

\* What the loop of runPreCommitReview does with one staged file: nothing,
\* an entry for allIssues, or an exception (readFileSync or analyzeCode).
ReviewStagedFile(file, response) ==
    IF ~( isSupportedFileType(file) /\ file.exists /\ file.size < SizeLimit )
    THEN Ok(<<>>)
    ELSE IF ~file.readable THEN Threw("EACCES: permission denied")
    ELSE
        LET qualityScore == getCodeQualityScore(file.code)
            securityIssues == getSecurityIssues(file.code)
            aiReview == analyzeCode(response)
        IN  IF ~( qualityScore.score < 80 \/ Len(securityIssues) > 0 )
            THEN Ok(<<>>)
            ELSE IF aiReview.threw THEN aiReview
            ELSE Ok(<< [ file |-> file.name \o file.ext,
                         qualityScore |-> qualityScore.score,
                         securityIssues |-> securityIssues,
                         aiReview |-> aiReview.value ] >>)

\* runPreCommitReview(): process.exit(1) when a file was flagged, a result
\* object otherwise; whatever is raised on the way is caught and reported
\* without stopping the commit.
runPreCommitReview(git, response) ==
    LET stagedFiles == getStagedFiles(git)
        perFile == [ i \in DOMAIN stagedFiles |->
                       ReviewStagedFile(stagedFiles[i], response) ]
        failed == { i \in DOMAIN perFile : perFile[i].threw }
        allIssues == Flatten([ i \in DOMAIN perFile |-> perFile[i].value ])
    IN  IF Len(stagedFiles) = 0
        THEN [ returned |-> [ success |-> TRUE, issues |-> <<>> ] ]
        ELSE IF failed # {}
        THEN [ returned |-> [ success |-> FALSE,
                              error |-> perFile[Least(failed)].error ] ]
        ELSE IF Len(allIssues) > 0
        THEN [ exit |-> 1, allIssues |-> allIssues ]
        ELSE [ returned |-> [ success |-> TRUE, issues |-> <<>> ] ]

InitCommit ==
    /\ Init
    /\ precommit = Pending

RunPreCommitReview ==
    \E git \in { Threw("fatal: not a git repository") } \cup
               { Ok(files) : files \in SeqsUpTo(StagedFileKinds, MaxFragments) },
       response \in GeminiResponses :
        /\ precommit = Pending
        /\ precommit' = [ git |-> git, gemini |-> response,
                          outcome |-> runPreCommitReview(git, response) ]
        /\ UNCHANGED <<pureVars, now, storeVars, httpVars, teamVars, scanVars,
                       detectVars, requests, webhook, styleCheck>>

NextCommit == RunPreCommitReview

SpecCommit == InitCommit /\ [][NextCommit]_vars

\* The staged files the hook looks into: supported, existing, under 1 MB
EligibleFiles ==
    IF precommit.git.threw THEN {}
    ELSE { precommit.git.value[i] : i \in DOMAIN precommit.git.value }
         \cap { f \in StagedFileKinds :
                  /\ f.ext \notin { ".md" }
                  /\ f.exists
                  /\ f.size < SizeLimit }

\* Those of them with a score below 80 or a security issue
FlaggedFiles ==
    { f \in EligibleFiles :
        /\ f.readable
        /\ \/ getCodeQualityScore(f.code).score < 80
           \/ getSecurityIssues(f.code) # <<>> }

\* A tool the hook relies on failed: git, the read of a file, or the AI
\* call made for a flagged file
ToolFailure ==
    \/ precommit.git.threw
    \/ \E f \in EligibleFiles : ~f.readable
    \/ FlaggedFiles # {} /\ precommit.gemini.kind = "error"

\* C29: runPreCommitReview blocks the commit (exit code 1) if and only if
\* no tool failed and some supported, existing staged file under 1 MB has a
\* score below 80 or a security issue; with no staged file or no flagged
\* file it returns success; on any tool failure it returns
\* {success: false} and does not block.
C29_BlocksIffFlagged ==
    precommit # Pending =>
        /\ "exit" \in DOMAIN precommit.outcome
           <=> ( ~ToolFailure /\ FlaggedFiles # {} )
        /\ ( ~ToolFailure /\ FlaggedFiles = {} )
           => precommit.outcome = [ returned |-> [ success |-> TRUE,
                                                   issues |-> <<>> ] ]
        /\ ToolFailure
           => /\ "returned" \in DOMAIN precommit.outcome
              /\ precommit.outcome.returned.success = FALSE

\* What the hook does do: the same, except that a failure of git counts as
\* "no staged files" and gives success.
PreCommitTreatsGitFailureAsEmpty ==
    precommit # Pending =>
        /\ "exit" \in DOMAIN precommit.outcome
           <=> ( ~ToolFailure /\ FlaggedFiles # {} )
        /\ ( ~ToolFailure /\ FlaggedFiles = {} )
           => precommit.outcome = [ returned |-> [ success |-> TRUE,
                                                   issues |-> <<>> ] ]
        /\ ( ToolFailure /\ ~precommit.git.threw )
           => /\ "returned" \in DOMAIN precommit.outcome
              /\ precommit.outcome.returned.success = FALSE
        /\ precommit.git.threw
           => precommit.outcome = [ returned |-> [ success |-> TRUE,
                                                   issues |-> <<>> ] ]

-----------------------------------------------------------------------------
(* Specification of the style check: enforceCodeStyle is called once with  *)
(* a text and a configuration, ESLint and Prettier each doing one of the    *)
(* things they can do.                                                      *)

\* The value null
Null == [ null |-> TRUE ]

\* A conversion that reports what it does not know as 'Unknown'
getSeverityFromESLint_UnknownDefault(eslintSeverity) ==
    CASE eslintSeverity = 1 -> "Medium"
      [] eslintSeverity = 2 -> "High"
      [] OTHER -> "Unknown"

\* getSeverityFromESLint(eslintSeverity)
getSeverityFromESLint(eslintSeverity) ==
    CASE eslintSeverity = 1 -> "Medium"
      [] eslintSeverity = 2 -> "High"
      [] OTHER -> "Low"

\* checkESLintStyle, given what ESLint does: its messages turned into
\* issues, or {success: false} when it raises.
checkESLintStyle(eslint) ==
    IF eslint.threw
    THEN [ success |-> FALSE, error |-> "Failed to run ESLint check",
           details |-> eslint.error ]
    ELSE LET messages == Flatten(eslint.value)
         IN  [ success |-> TRUE,
               issues |-> [ i \in DOMAIN messages |->
                              [ type |-> "ESLint", rule |-> "unknown",
                                severity |->
                                    getSeverityFromESLint(messages[i]) ] ],
               errorCount |-> Cardinality({ i \in DOMAIN messages :
                                              messages[i] = 2 }),
               warningCount |-> Cardinality({ i \in DOMAIN messages :
                                                messages[i] = 1 }) ]

\* checkPrettierStyle, given what happens: the check passes, the check
\* command fails (every failure of it counts as a formatting issue), or the
\* temporary file cannot be written.
checkPrettierStyle(prettier) ==
    CASE prettier = "passes" ->
             [ success |-> TRUE, issues |-> <<>>, formatted |-> TRUE ]
      [] prettier = "fails" ->
             [ success |-> TRUE,
               issues |-> << [ type |-> "Prettier", rule |-> "formatting",
                               description |->
                                   "Code does not match Prettier formatting standards",
                               severity |-> "Low", fixable |-> TRUE ] >>,
               formatted |-> FALSE ]
      [] OTHER ->
             [ success |-> FALSE, error |-> "Failed to run Prettier check",
               details |-> "ENOENT" ]

\* The rules of checkCustomStyleRules, per language and in order; a group
\* inside a pattern is written as one alternative for each of its branches.
CustomStyleRules ==
    [ javascript |->
        << [ name |-> "no-console", severity |-> "Medium", pattern |->
               << << WordBoundary, Str(<<"c", "o", "n", "s", "o", "l", "e", ".", "l", "o", "g">>),
                     Run(WhiteSpace, FALSE, 0), Str(<<"(">>) >>,
                  << WordBoundary, Str(<<"c", "o", "n", "s", "o", "l", "e", ".", "w", "a", "r", "n">>),
                     Run(WhiteSpace, FALSE, 0), Str(<<"(">>) >>,
                  << WordBoundary, Str(<<"c", "o", "n", "s", "o", "l", "e", ".", "e", "r", "r", "o", "r">>),
                     Run(WhiteSpace, FALSE, 0), Str(<<"(">>) >>,
                  << WordBoundary, Str(<<"c", "o", "n", "s", "o", "l", "e", ".", "i", "n", "f", "o">>),
                     Run(WhiteSpace, FALSE, 0), Str(<<"(">>) >>,
                  << WordBoundary, Str(<<"c", "o", "n", "s", "o", "l", "e", ".", "d", "e", "b", "u", "g">>),
                     Run(WhiteSpace, FALSE, 0), Str(<<"(">>) >> >> ],
           [ name |-> "max-line-length", severity |-> "Low", pattern |->
               << << Run(LineTerminators, TRUE, 120) >> >> ],
           [ name |-> "no-var", severity |-> "Medium", pattern |->
               << << WordBoundary, Str(<<"v", "a", "r">>),
                     Run(WhiteSpace, FALSE, 1) >> >> ] >>,
      python |->
        << [ name |-> "line-length", severity |-> "Low", pattern |->
               << << Run(LineTerminators, TRUE, 80) >> >> ],
           [ name |-> "no-exec", severity |-> "High", pattern |->
               << << WordBoundary, Str(<<"e", "x", "e", "c">>), Run(WhiteSpace, FALSE, 0),
                     Str(<<"(">>) >> >> ] >>,
      java |->
        << [ name |-> "system-out", severity |-> "Medium", pattern |->
               << << Str(<<"S", "y", "s", "t", "e", "m", ".", "o", "u", "t", ".", "p", "r", "i", "n", "t">>) >>,
                  << Str(<<"S", "y", "s", "t", "e", "m", ".", "e", "r", "r", ".", "p", "r", "i", "n", "t">>) >> >> ] >> ]

\* checkCustomStyleRules(code, language): one issue for each rule of the
\* language (of javascript when the language has no rules) that matches.
\* rules[language] of a name inherited from Object.prototype is no list and
\* forEach raises.
checkCustomStyleRules(text, lang) ==
    IF lang \in ObjectPrototypeKeys
    THEN Threw("TypeError: languageRules.forEach is not a function")
    ELSE
        LET rules == IF lang \in DOMAIN CustomStyleRules
                     THEN CustomStyleRules[lang]
                     ELSE CustomStyleRules.javascript
            matches == [ i \in DOMAIN rules |->
                           StringMatch(rules[i].pattern, text, 0).count ]
            hits == { i \in DOMAIN rules : matches[i] > 0 }
        IN  Ok([ n \in 1..Cardinality(hits) |->
                   LET i == CHOOSE j \in hits :
                                Cardinality({ h \in hits : h <= j }) = n
                   IN  [ type |-> "Custom", rule |-> rules[i].name,
                         severity |-> rules[i].severity,
                         count |-> matches[i] ] ])

\* String.prototype.toLowerCase on a severity
ToLowerCase(severity) ==
    CASE severity = "High" -> "high"
      [] severity = "Medium" -> "medium"
      [] severity = "Low" -> "low"
      [] severity = "Unknown" -> "unknown"
      [] OTHER -> severity

\* generateStyleSummary(results): null stands for a check that was not made
generateStyleSummary(results) ==
    LET counted == (IF results.eslint # Null /\ results.eslint.success
                    THEN results.eslint.issues ELSE <<>>)
                   \o (IF results.prettier # Null /\ results.prettier.success
                       THEN results.prettier.issues ELSE <<>>)
                   \o results.customRules
        tally(key) == Cardinality({ i \in DOMAIN counted :
                                      ToLowerCase(counted[i].severity) = key })
    IN  [ totalIssues |-> Len(counted),
          severityBreakdown |-> [ high |-> tally("high"),
                                  medium |-> tally("medium"),
                                  low |-> tally("low") ] ]

\* enforceCodeStyle(code, config), given what ESLint and Prettier do
enforceCodeStyle(text, config, eslint, prettier) ==
    LET enabled(key) == ~(key \in DOMAIN config /\ config[key] = FALSE)
        custom == IF enabled("customRules")
                  THEN checkCustomStyleRules(text,
                           IF "language" \in DOMAIN config
                           THEN config.language ELSE "javascript")
                  ELSE Ok(<<>>)
        results == [ eslint |-> IF enabled("eslint")
                                THEN checkESLintStyle(eslint) ELSE Null,
                     prettier |-> IF enabled("prettier")
                                  THEN checkPrettierStyle(prettier) ELSE Null,
                     customRules |-> custom.value ]
    IN  IF custom.threw
        THEN [ success |-> FALSE, error |-> "Failed to enforce code style",
               details |-> custom.error ]
        ELSE [ success |-> TRUE, results |-> results,
               summary |-> generateStyleSummary(results) ]

\* Texts for the custom rules: statements the rules look for, and a line of
\* 120 characters
StyleTexts ==
    { <<"v", "a", "r", " ", "a", " ", "=", " ", "1", "\n", "c", "o", "n", "s", "o", "l", "e", ".", "w", "a", "r", "n", " ", "(", "a", ")", "\n", "v", "a", "r", " ", "b">>,
      [ i \in 1..120 |-> "x" ] \o <<"\n", "e", "x", "e", "c", "(">>,
      <<"S", "y", "s", "t", "e", "m", ".", "o", "u", "t", ".", "p", "r", "i", "n", "t", " ", "S", "y", "s", "t", "e", "m", ".", "e", "r", "r", ".", "p", "r", "i", "n", "t", " ", "e", "x", "e", "c">> }

InitStyle ==
    /\ Init
    /\ styleCheck = Pending

EnforceCodeStyle ==
    \E text \in StyleTexts,
       off \in SUBSET { "eslint", "prettier", "customRules" },
       lang \in { "none", "python", "java", "constructor" },
       eslint \in { Threw("No ESLint configuration found") } \cup
                  { Ok(<< messages >>) :
                      messages \in SeqsUpTo({ 0, 1, 2 }, MaxFragments) },
       prettier \in { "passes", "fails", "cannot write" } :
        /\ styleCheck = Pending
        /\ LET config == [ k \in off \cup (IF lang = "none" THEN {}
                                           ELSE { "language" }) |->
                             IF k = "language" THEN lang ELSE FALSE ]
           IN  styleCheck' =
                   [ code |-> text, config |-> config, eslint |-> eslint,
                     prettier |-> prettier,
                     result |-> enforceCodeStyle(text, config, eslint,
                                                 prettier) ]
        /\ UNCHANGED <<pureVars, now, storeVars, httpVars, teamVars, scanVars,
                       detectVars, requests, webhook, precommit>>

NextStyle == EnforceCodeStyle

SpecStyle == InitStyle /\ [][NextStyle]_vars

\* A check counts when it was not switched off and it succeeded
CheckCounts(key) ==
    /\ ~(key \in DOMAIN styleCheck.config /\ styleCheck.config[key] = FALSE)
    /\ IF key = "eslint" THEN ~styleCheck.eslint.threw
       ELSE styleCheck.prettier # "cannot write"

\* C30: in every enforceCodeStyle result with a summary, totalIssues is the
\* number of custom-rule issues plus the issues of each of ESLint and
\* Prettier whose check was made and succeeded, and the three counts of the
\* severity breakdown add up to totalIssues.
C30_SummaryCountsSucceededChecks ==
    (styleCheck # Pending /\ styleCheck.result.success) =>
        LET summary == styleCheck.result.summary
            eslintIssues == IF CheckCounts("eslint")
                            THEN Len(styleCheck.eslint.value[1]) ELSE 0
            prettierIssues == IF CheckCounts("prettier")
                                 /\ styleCheck.prettier = "fails"
                              THEN 1 ELSE 0
        IN  /\ summary.totalIssues =
                   Len(styleCheck.result.results.customRules)
                   + eslintIssues + prettierIssues
            /\ summary.severityBreakdown.high
                   + summary.severityBreakdown.medium
                   + summary.severityBreakdown.low = summary.totalIssues

\* ESLint failed, Prettier found the text unformatted, two custom rules
\* matched: three issues
C30_Witness ==
    /\ styleCheck # Pending
    /\ styleCheck.result.success
    /\ styleCheck.eslint.threw
    /\ styleCheck.result.results.eslint # Null
    /\ styleCheck.prettier = "fails"
    /\ styleCheck.result.results.prettier # Null
    /\ Len(styleCheck.result.results.customRules) = 2
    /\ styleCheck.result.summary.totalIssues = 3

\* ESLint reported a message of a severity it does not name, with Prettier
\* switched off
C30_WitnessUnnamedSeverity ==
    /\ styleCheck # Pending
    /\ styleCheck.result.success
    /\ ~styleCheck.eslint.threw
    /\ styleCheck.result.results.eslint # Null
    /\ \E i \in DOMAIN styleCheck.eslint.value[1] :
         styleCheck.eslint.value[1][i] = 0
    /\ styleCheck.result.results.prettier = Null
    /\ styleCheck.result.summary.totalIssues > 0

====
